---- MODULE Spec2Model ----
(***************************************************************************)
(* Gobbledegook: a BLE GATT peripheral framework.                          *)
(*                                                                         *)
(* This module models                                                      *)
(*   - the process-wide update queue (Gobbledegook.cpp),                   *)
(*   - the run state / health variables and the embedding API that drives  *)
(*     them: ggkStart, ggkWait, ggkTriggerShutdown, ggkShutdownAndWait,    *)
(*   - the server thread: initialization state processor, the GLib main    *)
(*     loop with its asynchronous completions, periodic timer and idle     *)
(*     drain (Init.cpp),                                                   *)
(*   - the life of the HciAdapter event thread (HciAdapter.cpp).           *)
(*                                                                         *)
(* Text is modelled as a sequence of one-character strings, so that        *)
(* formatting ("path|interface") and parsing (find('|')) are computed.     *)
(***************************************************************************)
EXTENDS Integers, Sequences, FiniteSets, TLC

\* ------------------------------------------------------------------------
\* Bounds of the model
\* ------------------------------------------------------------------------

\* Number of entries pushed onto the update queue through the queue API
MaxPushes == 3

\* Number of notifications the host pushes while the server lives
MaxNotifies == 1

\* Number of failures the environment injects in one run (a bus, BlueZ or
\* HCI operation that fails, an owned name that is lost)
MaxFailures == 1

\* Number of remote method calls and tick events that reach host callbacks
MaxHostCalls == 1

\* Number of remote WriteValue and ReadValue calls on the text characteristic
MaxMethodCalls == 2

\* maxAsyncInitTimeoutMS / kMaxAsyncInitCheckIntervalMS: the number of polls
\* ggkStart makes before it gives up
MaxAsyncInitPolls == 2

\* ------------------------------------------------------------------------
\* Program constants
\* ------------------------------------------------------------------------

\* enum GGKServerRunState
EUninitialized == 0
EInitializing == 1
ERunning == 2
EStopping == 3
EStopped == 4

\* enum GGKServerHealth
EOk == 0
EFailedInit == 1
EFailedRun == 2

\* static const int kRetryDelaySeconds
kRetryDelaySeconds == 2

\* ------------------------------------------------------------------------
\* Text
\* ------------------------------------------------------------------------

\* "org.bluez.GattCharacteristic1", the interface name pushed by
\* ggkNofifyUpdatedCharacteristic
kGattCharacteristicInterface ==
    << "o","r","g",".","b","l","u","e","z",".",
       "G","a","t","t","C","h","a","r","a","c","t","e","r","i","s","t","i","c","1" >>

\* "org.bluez.GattDescriptor1", the interface name pushed by
\* ggkNofifyUpdatedDescriptor
kGattDescriptorInterface ==
    << "o","r","g",".","b","l","u","e","z",".",
       "G","a","t","t","D","e","s","c","r","i","p","t","o","r","1" >>

\* #define kServerName std::string("gobbledegook")
kServerName == << "g","o","b","b","l","e","d","e","g","o","o","k" >>

\* Service names a host passes to ggkStart
ServiceNames == { kServerName, << "G","G","K" >> }

\* The zero byte
Nul == "NUL"

\* static std::string serverDataTextString = "Hello, world!"
kDefaultTextString == << "H","e","l","l","o",","," ","w","o","r","l","d","!" >>

\* Byte arrays a remote WriteValue carries: a text and a text with a zero
\* byte in it
WrittenValues == { << "h","i" >>, << "h",Nul,"i" >> }

\* Object paths handed to the queue by the host
ObjectPaths == { << "/","a" >>, << "/","a","/","d" >> }

\* Interface names handed to ggkPushUpdateQueue
InterfaceNames == { kGattCharacteristicInterface, kGattDescriptorInterface }

\* Sizes of the caller's buffer passed to ggkPopUpdateQueue: nothing, one byte
\* short of the shortest entry and its terminator, exactly enough for it,
\* and the size the idle drain uses
ElementLens == { 0, 28, 29, 1024 }

\* keep argument of ggkPopUpdateQueue
Keeps == { 0, 1 }

\* const int kQueueEntryLen = 1024 in idleFunc
kQueueEntryLen == 1024

\* ------------------------------------------------------------------------
\* State
\* ------------------------------------------------------------------------

VARIABLES
    updateQueue,       \* std::deque<QueueEntry>, index 1 is the front
    elementBuffer,     \* the caller's pElementBuffer after the last pop
    call,              \* the last update queue API call and what it returned
    pushLog,           \* every entry pushed since the last clear, oldest first
    nPopped,           \* number of pops that returned 1 with keep == 0 since the last clear
    serverRunState,    \* volatile static GGKServerRunState
    serverHealth,      \* volatile static GGKServerHealth
    pc,                \* where each thread is
    stack,             \* each thread's return addresses
    serverThread,      \* std::thread serverThread: none, running, finished, joined
    eventThread,       \* HciAdapter::eventThread: none, running, finished, joined
    retryTimeMS,       \* ggkStart's poll counter, in polls
    startResult,       \* what ggkStart returned, -1 before it returns
    waitResult,        \* what the host's ggkWait / ggkShutdownAndWait returned, -1 before
    pBusConnection,    \* TRUE when non-null
    bOwnedNameAcquired,
    pBluezObjectManager,            \* TRUE when non-null
    bluezGattManagerInterfaceName,  \* TRUE when non-empty
    bAdapterConfigured,
    registeredObjectIds,            \* set of registration ids
    bApplicationRegistered,
    ownedNameId,       \* number of g_bus_own_name_on_connection calls, 0 before the first
    periodicTimeoutId, \* id of the timer added last, 0 when none
    timers,            \* ids of the timer sources attached to the main loop
    retryTimeStart,    \* 0 when no retry is pending, 1 otherwise
    retryElapsed,      \* time(nullptr) - retryTimeStart, saturating at kRetryDelaySeconds
    pMainLoop,         \* TRUE when non-null
    mainLoopRefs,      \* reference count of the GMainLoop made by g_main_loop_new
    mainLoopRunning,   \* GMainLoop is_running
    pending,           \* asynchronous completions not yet delivered, per operation
    failures,          \* the failures injected so far, in order
    quitCalls,         \* number of g_main_loop_quit calls
    joinCalls,         \* number of eventThread.join() calls
    hostCalls,         \* host callbacks invoked so far, in order
    serverDataTextString,  \* the host's text value behind "text/string"
    serviceName,       \* Server::serviceName, empty before ggkStart makes TheServer
    methodReply,       \* what onMethodCall last sent back for a method it did not find
    controller,        \* the Bluetooth controller behind the HCI socket: its settings and names
    controllerAtStart, \* the controller as it was before the first reconciliation pass
    controllerInformation,  \* HciAdapter::controllerInformation, the cached snapshot
    adapterSettings,   \* HciAdapter::adapterSettings
    advertisingName,   \* Server::advertisingName
    advertisingShortName,   \* Server::advertisingShortName
    sentCommands,      \* the commands configureAdapter has sent in its current pass
    mgmtStep,          \* the step configureAdapter is at, 0 outside configureAdapter
    conditionalValue,  \* HciAdapter::conditionalValue: "-1" or the command code seen last
    commandResponseMutex,  \* HciAdapter::commandResponseMutex: locked or unlocked
    activeConnections, \* HciAdapter::activeConnections
    sendCommandCall,   \* where the caller of HciAdapter::sendCommand is, and its request
    waiter,            \* the std::async task that runs waitForCommandResponse
    eventLoop,         \* where runEventThread is, and the event it has read
    hciSocketEvents,   \* the events the HCI socket holds for the next reads
    controllerCommands,    \* the commands written to the socket and not yet answered
    commandResults,    \* what each sendCommand call returned, oldest first
    nUnsolicited,      \* number of events the controller sent without a command
    busObjects,        \* the interfaces exported on the bus connection
    properties,        \* GattInterface::properties of the interface of each type
    propertyReply,     \* the last property request and what onGetProperty / onSetProperty did
    objects,           \* Server::objects, the root objects of the server description
    managedObjects,    \* the last GetManagedObjects reply
    timerFirings,      \* number of onPeriodicTimer calls followed
    wasRunning,        \* TRUE once the run state has been set to ERunning
    startWait,         \* "polling" until ggkStart leaves its poll loop, then whether
                       \* the run state had become ERunning by then
    shutdownAndWait    \* "no" until the host calls ggkShutdownAndWait, then whether
                       \* the server was running and healthy at the call

queueVars == << updateQueue, elementBuffer, call, pushLog, nPopped >>
runVars == << serverRunState, serverHealth, wasRunning >>
ctlVars == << pc, stack >>
thrVars == << serverThread, eventThread >>
hostVars == << retryTimeMS, startResult, waitResult, startWait, shutdownAndWait >>
initVars == << pBusConnection, bOwnedNameAcquired, pBluezObjectManager,
               bluezGattManagerInterfaceName, bAdapterConfigured, registeredObjectIds,
               bApplicationRegistered >>
nameVars == << ownedNameId, periodicTimeoutId, timers >>
retryVars == << retryTimeStart, retryElapsed >>
loopVars == << pMainLoop, mainLoopRefs, mainLoopRunning, pending >>
countVars == << failures, quitCalls, joinCalls >>
hciVars == << controller, controllerAtStart, controllerInformation, adapterSettings,
              advertisingName, advertisingShortName, sentCommands, mgmtStep >>
cmdVars == << conditionalValue, commandResponseMutex, activeConnections, sendCommandCall,
              waiter, eventLoop, hciSocketEvents, controllerCommands, commandResults,
              nUnsolicited >>
dbusVars == << properties, propertyReply, objects, managedObjects, timerFirings >>
dataVars == << serverDataTextString, serviceName, methodReply, hciVars, cmdVars, busObjects,
              dbusVars >>

lifeVars == << runVars, ctlVars, thrVars, hostVars, initVars, nameVars, retryVars,
               loopVars, countVars, hostCalls, dataVars >>

vars == << queueVars, lifeVars >>

\* ------------------------------------------------------------------------
\* Property requests (Init.cpp, Server.cpp, GattInterface.cpp)
\* ------------------------------------------------------------------------

\* getInterfaceType() of the interfaces of a server description
\* (GattService.h, GattCharacteristic.h, GattDescriptor.h)
GattInterfaceTypes == { "GattService", "GattCharacteristic", "GattDescriptor" }

\* GattInterface declares no kInterfaceType of its own, so
\* GattInterface::kInterfaceType is the one it inherits from DBusInterface
GattInterface_kInterfaceType == "DBusInterface"

\* Property names a request carries
PropertyNames == { "P", "Q" }

\* A GattProperty: its name and whether its getter and setter are set
GattProperties ==
    [ name : { "P" }, getterFunc : BOOLEAN, setterFunc : BOOLEAN ]

\* The property lists an interface can have: none or one property
PropertyLists == { << >> } \cup { << p >> : p \in GattProperties }

\* nullptr for a property
NoProperty == [ name |-> "", getterFunc |-> FALSE, setterFunc |-> FALSE ]

\* GattInterface::findProperty: the first property of that name, or nullptr
RECURSIVE GattInterface_findProperty(_, _)
GattInterface_findProperty(props, name) ==
    IF props = << >>
    THEN NoProperty
    ELSE IF Head(props).name = name
         THEN Head(props)
         ELSE GattInterface_findProperty(Tail(props), name)

\* TRY_GET_CONST_INTERFACE_OF_TYPE(pInterface, type)
TRY_GET_CONST_INTERFACE_OF_TYPE(interfaceType, kInterfaceType) ==
    interfaceType = kInterfaceType

\* Server::findProperty for the interface of that type
findProperty(interfaceType, propertyName) ==
    IF TRY_GET_CONST_INTERFACE_OF_TYPE(interfaceType, GattInterface_kInterfaceType)
    THEN GattInterface_findProperty(properties[interfaceType], propertyName)
    ELSE IF TRY_GET_CONST_INTERFACE_OF_TYPE(interfaceType, "GattService")
    THEN GattInterface_findProperty(properties[interfaceType], propertyName)
    ELSE IF TRY_GET_CONST_INTERFACE_OF_TYPE(interfaceType, "GattCharacteristic")
    THEN GattInterface_findProperty(properties[interfaceType], propertyName)
    ELSE NoProperty

\* What a getter returns (a value or nullptr) and a setter (true or false)
FuncResults == { "ok", "failed" }

\* G_IO_ERROR_FAILED
G_IO_ERROR_FAILED == "G_IO_ERROR_FAILED"

\* No property request answered yet
NoRequest ==
    [ op |-> "none", interfaceType |-> "", propertyName |-> "", called |-> FALSE,
      reply |-> "" ]

\* onGetProperty for a property of the interface of that type
onGetProperty(interfaceType, pPropertyName, result) ==
    LET pProperty == findProperty(interfaceType, pPropertyName)
        request == [ op |-> "get", interfaceType |-> interfaceType,
                     propertyName |-> pPropertyName ]
    IN  /\ propertyReply' =
              IF pProperty = NoProperty
              THEN request @@ [ called |-> FALSE, reply |-> G_IO_ERROR_FAILED ]
              ELSE IF ~pProperty.getterFunc
              THEN request @@ [ called |-> FALSE, reply |-> G_IO_ERROR_FAILED ]
              ELSE request @@ [ called |-> TRUE,
                                reply |-> IF result = "ok" THEN "value"
                                                           ELSE G_IO_ERROR_FAILED ]
        /\ UNCHANGED << properties, objects, managedObjects, timerFirings, queueVars, runVars,
                        ctlVars, thrVars, hostVars,
                        initVars, nameVars, retryVars, loopVars, countVars, hostCalls,
                        serverDataTextString, serviceName, methodReply, hciVars,
                        cmdVars, busObjects >>

\* onSetProperty for a property of the interface of that type
onSetProperty(interfaceType, pPropertyName, result) ==
    LET pProperty == findProperty(interfaceType, pPropertyName)
        request == [ op |-> "set", interfaceType |-> interfaceType,
                     propertyName |-> pPropertyName ]
    IN  /\ propertyReply' =
              IF pProperty = NoProperty
              THEN request @@ [ called |-> FALSE, reply |-> G_IO_ERROR_FAILED ]
              ELSE IF ~pProperty.setterFunc
              THEN request @@ [ called |-> FALSE, reply |-> G_IO_ERROR_FAILED ]
              ELSE request @@ [ called |-> TRUE,
                                reply |-> IF result = "ok" THEN "true"
                                                           ELSE G_IO_ERROR_FAILED ]
        /\ UNCHANGED << properties, objects, managedObjects, timerFirings, queueVars, runVars,
                        ctlVars, thrVars, hostVars,
                        initVars, nameVars, retryVars, loopVars, countVars, hostCalls,
                        serverDataTextString, serviceName, methodReply, hciVars,
                        cmdVars, busObjects >>

\* ------------------------------------------------------------------------
\* The object hierarchy and GetManagedObjects (DBusObject.cpp, ServerUtils.cpp)
\* ------------------------------------------------------------------------

\* DBusInterface::kInterfaceType, the type of the ObjectManager interface
DBusInterface_kInterfaceType == "DBusInterface"

\* An interface of an object: its type and its tick events
Interface(type, events) == [ type |-> type, events |-> events ]

\* DBusObject::DBusObject(path, publish): a root object
DBusObject(path, publish) ==
    [ pathNode |-> path, publish |-> publish, interfaces |-> << >>, children |-> << >> ]

\* DBusObject::DBusObject(pParent, pathElement): a node takes its parent's
\* publish flag
ChildObject(pParent, pathElement) ==
    [ pathNode |-> pathElement, publish |-> pParent.publish, interfaces |-> << >>,
      children |-> << >> ]

\* DBusObject::addInterface
addInterface(object, interface) ==
    [ object EXCEPT !.interfaces = Append(@, interface) ]

\* The object with all of these interfaces added
RECURSIVE addInterfaces(_, _)
addInterfaces(object, interfaces) ==
    IF interfaces = << >>
    THEN object
    ELSE addInterfaces(addInterface(object, Head(interfaces)), Tail(interfaces))

\* DBusObject::addChild, with the child as it is once it has been built
addChild(object, child) ==
    [ object EXCEPT !.children = Append(@, child) ]

\* The root object the server's constructor makes for the object manager:
\* not published, with the ObjectManager interface
ObjectManagerRoot ==
    addInterface(DBusObject(<< >>, FALSE), Interface(DBusInterface_kInterfaceType, << >>))

\* A hierarchy as the server's constructor builds it: a root "com" with the
\* children "a" and "b", "a" with the child "c", each with the interfaces given
Hierarchy(publish, iRoot, iA, iB, iC) ==
    LET root == addInterfaces(DBusObject(<< "com" >>, publish), iRoot)
        a    == addInterfaces(ChildObject(root, << "a" >>), iA)
        b    == addInterfaces(ChildObject(root, << "b" >>), iB)
        c    == addInterfaces(ChildObject(a, << "c" >>), iC)
    IN  addChild(addChild(root, addChild(a, c)), b)

\* A test of the publish flag that every object passes
isPublishedAlways(object) == TRUE

\* DBusObject::isPublished
isPublished(object) == object.publish

\* The interface array addManagedObjectsNode builds for an object: the types
\* of its interfaces that have properties
InterfaceArray(interfaces) ==
    LET withProperties == SelectSeq(interfaces, LAMBDA i : properties[i.type] # << >>)
    IN  [ k \in 1..Len(withProperties) |-> withProperties[k].type ]

\* addManagedObjectsNode and its loop over the children: the entries added to
\* the object array. An interface that is none of GattService,
\* GattCharacteristic and GattDescriptor ends the call before the object's
\* entry is added and before its children are visited.
RECURSIVE addManagedObjectsNode(_, _)
RECURSIVE addManagedObjectsChildren(_, _)
addManagedObjectsNode(object, basePath) ==
    IF ~isPublished(object)
    THEN << >>
    ELSE LET path == basePath \o object.pathNode
         IN  IF \E i \in 1..Len(object.interfaces) :
                    object.interfaces[i].type \notin GattInterfaceTypes
             THEN << >>
             ELSE (IF object.interfaces # << >>
                   THEN << [ path |-> path,
                             interfaces |-> InterfaceArray(object.interfaces) ] >>
                   ELSE << >>)
                  \o addManagedObjectsChildren(object.children, path)

addManagedObjectsChildren(children, basePath) ==
    IF children = << >>
    THEN << >>
    ELSE addManagedObjectsNode(Head(children), basePath)
         \o addManagedObjectsChildren(Tail(children), basePath)

\* ServerUtils::getManagedObjects: the object array of the reply
getManagedObjects == addManagedObjectsChildren(objects, << >>)

\* No GetManagedObjects call answered yet
NoReply == [ replied |-> FALSE, objectArray |-> << >> ]

\* A remote client calls GetManagedObjects
GetManagedObjects ==
    /\ managedObjects' = [ replied |-> TRUE, objectArray |-> getManagedObjects ]
    /\ UNCHANGED << objects, properties, propertyReply, timerFirings, queueVars, runVars, ctlVars,
                    thrVars, hostVars, initVars, nameVars, retryVars, loopVars,
                    countVars, hostCalls, serverDataTextString, serviceName,
                    methodReply, hciVars, cmdVars, busObjects >>

\* ------------------------------------------------------------------------
\* Tick events (TickEvent.h, DBusInterface.cpp, DBusObject.cpp, Init.cpp)
\* ------------------------------------------------------------------------

\* Number of firings of the periodic timer followed
MaxTicks == 6

\* Largest tick frequency of an event
MaxFrequency == 3

\* TickEvent::TickEvent: elapsedTicks(0). ticks and fired count the calls of
\* tick and of the callback; they are not fields of the program.
TickEvent(tickFrequency, callback) ==
    [ tickFrequency |-> tickFrequency, elapsedTicks |-> 0, callback |-> callback,
      ticks |-> 0, fired |-> 0 ]

\* An event that fires one tick early
TickEventTickEarly(event) ==
    LET elapsedTicks == event.elapsedTicks + 1
    IN  IF elapsedTicks + 1 >= event.tickFrequency
        THEN [ event EXCEPT !.elapsedTicks = 0,
                            !.ticks = @ + 1,
                            !.fired = IF event.callback THEN @ + 1 ELSE @ ]
        ELSE [ event EXCEPT !.elapsedTicks = elapsedTicks, !.ticks = @ + 1 ]

\* TickEvent::tick
TickEventTick(event) ==
    LET elapsedTicks == event.elapsedTicks + 1
    IN  IF elapsedTicks >= event.tickFrequency
        THEN [ event EXCEPT !.elapsedTicks = 0,
                            !.ticks = @ + 1,
                            !.fired = IF event.callback THEN @ + 1 ELSE @ ]
        ELSE [ event EXCEPT !.elapsedTicks = elapsedTicks, !.ticks = @ + 1 ]

\* DBusInterface::tickEvents, GattCharacteristic::tickEvents and
\* GattDescriptor::tickEvents: tick every event of the interface
InterfaceTickEvents(interface) ==
    [ interface EXCEPT !.events = [ k \in 1..Len(@) |-> TickEventTick(@[k]) ] ]

\* DBusObject::tickEvents: tick the object's interfaces, then its children
RECURSIVE ObjectTickEvents(_)
ObjectTickEvents(object) ==
    [ object EXCEPT
        !.interfaces = [ k \in 1..Len(@) |-> InterfaceTickEvents(@[k]) ],
        !.children = [ k \in 1..Len(@) |-> ObjectTickEvents(@[k]) ] ]

\* The loop of onPeriodicTimer over TheServer->getObjects()
PublishedTickEvents(objs) ==
    [ k \in 1..Len(objs) |->
        IF isPublished(objs[k]) THEN ObjectTickEvents(objs[k]) ELSE objs[k] ]

\* What the rest of the server does during a step that concerns the tick
\* events only
TickFrame ==
    UNCHANGED << queueVars, serverHealth, wasRunning, ctlVars, thrVars, hostVars,
                 pBusConnection, bOwnedNameAcquired, pBluezObjectManager,
                 bluezGattManagerInterfaceName, bAdapterConfigured, registeredObjectIds,
                 ownedNameId, periodicTimeoutId, retryVars, loopVars, countVars,
                 hostCalls, serverDataTextString, serviceName, methodReply, hciVars,
                 cmdVars, busObjects, properties, propertyReply, managedObjects >>

\* onPeriodicTimer with no retry pending, as one step: past ERunning it
\* returns FALSE, which removes the source; otherwise, if the application is
\* registered, it ticks the published objects
onPeriodicTimer(id) ==
    /\ id \in timers
    /\ retryTimeStart = 0
    /\ timerFirings < MaxTicks
    /\ timerFirings' = timerFirings + 1
    /\ IF serverRunState > ERunning
       THEN /\ timers' = timers \ { id }
            /\ UNCHANGED objects
       ELSE /\ objects' = IF bApplicationRegistered
                          THEN PublishedTickEvents(objects)
                          ELSE objects
            /\ UNCHANGED timers
    /\ UNCHANGED << serverRunState, bApplicationRegistered >>
    /\ TickFrame

\* The reply to RegisterApplication arrives: bApplicationRegistered = true
RegisterApplicationReply ==
    /\ serverRunState = EInitializing
    /\ ~bApplicationRegistered
    /\ bApplicationRegistered' = TRUE
    /\ UNCHANGED << serverRunState, objects, timers, timerFirings >>
    /\ TickFrame

\* setServerRunState: the run state moves on to ERunning once the application
\* is registered, and from there or from EInitializing to EStopping and EStopped
RunStateMoves(newState) ==
    /\ \/ newState = ERunning /\ serverRunState = EInitializing /\ bApplicationRegistered
       \/ newState = EStopping /\ serverRunState \in { EInitializing, ERunning }
       \/ newState = EStopped /\ serverRunState = EStopping
    /\ serverRunState' = newState
    /\ UNCHANGED << bApplicationRegistered, objects, timers, timerFirings >>
    /\ TickFrame

\* A server description without properties and with the object manager's
\* root only, no request answered
DBusInit ==
    /\ properties = [ t \in GattInterfaceTypes |-> << >> ]
    /\ propertyReply = NoRequest
    /\ objects = << ObjectManagerRoot >>
    /\ managedObjects = NoReply
    /\ timerFirings = 0

\* ------------------------------------------------------------------------
\* Update queue (Gobbledegook.cpp)
\* ------------------------------------------------------------------------

\* QueueEntry t(pObjectPath, pInterfaceName)
QueueEntry(pObjectPath, pInterfaceName) == << pObjectPath, pInterfaceName >>

\* std::get<0>(t) + "|" + std::get<1>(t)
EntryString(t) == t[1] \o << "|" >> \o t[2]

\* A push that coalesces with an equal entry at the front
PushFrontCoalesced(q, t) == IF q # << >> /\ q[1] = t THEN q ELSE << t >> \o q

\* updateQueue.push_front(t)
PushFront(q, t) == << t >> \o q

\* updateQueue.front()
Front(q) == q[1]

\* updateQueue.back()
Back(q) == q[Len(q)]

\* updateQueue.pop_front()
PopFront(q) == Tail(q)

\* updateQueue.pop_back()
PopBack(q) == SubSeq(q, 1, Len(q) - 1)

\* ggkPushUpdateQueue: the queue after the push, and the return value
ggkPushUpdateQueue(q, pObjectPath, pInterfaceName) ==
    [ queue |-> PushFront(q, QueueEntry(pObjectPath, pInterfaceName)), ret |-> 1 ]

\* ggkPopUpdateQueue: the queue after the call, the return value and what is
\* copied to the caller's buffer (buf is the buffer before the call).
\* elementLen is never negative here, so static_cast<size_t>(elementLen)
\* is elementLen.
ggkPopUpdateQueue(q, buf, elementLen, keep) ==
    IF q = << >>
    THEN [ queue |-> q, ret |-> 0, buffer |-> buf ]
    ELSE LET result == EntryString(Back(q))
         IN  IF Len(result) + 1 > elementLen
             THEN [ queue |-> q, ret |-> -1, buffer |-> buf ]
             ELSE [ queue  |-> IF keep = 0 THEN PopBack(q) ELSE q,
                    ret    |-> 1,
                    buffer |-> result ]

\* ggkUpdateQueueIsEmpty
ggkUpdateQueueIsEmpty(q) == IF q = << >> THEN 1 ELSE 0

\* ggkUpdateQueueSize
ggkUpdateQueueSize(q) == Len(q)

\* ggkUpdateQueueClear
ggkUpdateQueueClear(q) == << >>

\* The host calls ggkPushUpdateQueue(pObjectPath, pInterfaceName)
PushUpdateQueue(pObjectPath, pInterfaceName) ==
    /\ Len(pushLog) < MaxPushes
    /\ LET r == ggkPushUpdateQueue(updateQueue, pObjectPath, pInterfaceName)
       IN  /\ updateQueue' = r.queue
           /\ call' = [ op |-> "push", ret |-> r.ret, elementLen |-> 0, keep |-> 0 ]
    /\ pushLog' = Append(pushLog, QueueEntry(pObjectPath, pInterfaceName))
    /\ UNCHANGED << elementBuffer, nPopped >>

\* The host calls ggkPopUpdateQueue(buffer, elementLen, keep)
PopUpdateQueue(elementLen, keep) ==
    LET r == ggkPopUpdateQueue(updateQueue, elementBuffer, elementLen, keep)
    IN  /\ updateQueue' = r.queue
        /\ elementBuffer' = r.buffer
        /\ call' = [ op |-> "pop", ret |-> r.ret, elementLen |-> elementLen, keep |-> keep ]
        /\ nPopped' = nPopped + (IF r.ret = 1 /\ keep = 0 THEN 1 ELSE 0)
        /\ UNCHANGED pushLog

\* The host calls ggkUpdateQueueSize()
UpdateQueueSize ==
    /\ call' = [ op |-> "size", ret |-> ggkUpdateQueueSize(updateQueue),
                 elementLen |-> 0, keep |-> 0 ]
    /\ UNCHANGED << updateQueue, elementBuffer, pushLog, nPopped >>

\* The host calls ggkUpdateQueueIsEmpty()
UpdateQueueIsEmpty ==
    /\ call' = [ op |-> "is_empty", ret |-> ggkUpdateQueueIsEmpty(updateQueue),
                 elementLen |-> 0, keep |-> 0 ]
    /\ UNCHANGED << updateQueue, elementBuffer, pushLog, nPopped >>

\* The host calls ggkUpdateQueueClear()
UpdateQueueClear ==
    /\ updateQueue' = ggkUpdateQueueClear(updateQueue)
    /\ call' = [ op |-> "clear", ret |-> 0, elementLen |-> 0, keep |-> 0 ]
    /\ pushLog' = << >>
    /\ nPopped' = 0
    /\ UNCHANGED elementBuffer

QueueInit ==
    /\ updateQueue = << >>
    /\ elementBuffer = << >>
    /\ call = [ op |-> "none", ret |-> 0, elementLen |-> 0, keep |-> 0 ]
    /\ pushLog = << >>
    /\ nPopped = 0

\* The update queue API used on its own by one host thread
QueueNext ==
    \/ \E p \in ObjectPaths, i \in InterfaceNames : PushUpdateQueue(p, i)
    \/ \E len \in ElementLens, keep \in Keeps : PopUpdateQueue(len, keep)
    \/ UpdateQueueSize
    \/ UpdateQueueIsEmpty
    \/ UpdateQueueClear

\* ------------------------------------------------------------------------
\* Threads
\* ------------------------------------------------------------------------

\* The host thread that calls ggkStart and later ggkWait or
\* ggkShutdownAndWait, the server thread (runServerThread) and a second host
\* thread or signal handler that calls ggkTriggerShutdown
Threads == { "host", "server", "ext" }

\* Every thread of a process that has aborted
Aborted == [ t \in Threads |-> "aborted" ]

Goto(t, label) ==
    /\ pc' = [ pc EXCEPT ![t] = label ]
    /\ UNCHANGED stack

CallSub(t, label, returnTo) ==
    /\ pc' = [ pc EXCEPT ![t] = label ]
    /\ stack' = [ stack EXCEPT ![t] = returnTo \o @ ]

Return(t) ==
    /\ pc' = [ pc EXCEPT ![t] = Head(stack[t]) ]
    /\ stack' = [ stack EXCEPT ![t] = Tail(@) ]

\* std::thread::joinable()
Joinable(thread) == thread \in { "running", "finished" }

\* A join() that returns while the thread is still running
NeverBlocks(thread) == TRUE

\* std::thread::join() returns once the thread has finished
JoinReturns(thread) == thread # "running"

\* The thread object after join()
Joined(thread) == IF Joinable(thread) THEN "joined" ELSE thread

\* ggkIsServerRunning
ggkIsServerRunning == IF serverRunState <= ERunning THEN 1 ELSE 0

\* ------------------------------------------------------------------------
\* shutdown (Init.cpp), run by whichever thread calls it
\* ------------------------------------------------------------------------

\* if (ggkGetServerRunState() > ERunning) return
ShutdownIgnored == serverRunState > ERunning

ShutdownCheck(t) ==
    /\ pc[t] = "shutdown"
    /\ IF ShutdownIgnored
       THEN Return(t)
       ELSE Goto(t, "shutdown_set")
    /\ UNCHANGED << queueVars, runVars, thrVars, hostVars, initVars, nameVars,
                    retryVars, loopVars, countVars, hostCalls, dataVars >>

\* setServerRunState(EStopping)
ShutdownSetStopping(t) ==
    /\ pc[t] = "shutdown_set"
    /\ serverRunState' = EStopping
    /\ Goto(t, "hci_stop")
    /\ UNCHANGED << queueVars, serverHealth, wasRunning, thrVars, hostVars, initVars,
                    nameVars, retryVars, loopVars, countVars, hostCalls, dataVars >>

\* HciAdapter::stop: if (eventThread.joinable()) eventThread.join()
HciAdapterStop(t) ==
    /\ pc[t] = "hci_stop"
    /\ IF Joinable(eventThread)
       THEN Goto(t, "hci_join") /\ joinCalls' = joinCalls + 1
       ELSE Goto(t, "main_loop_quit") /\ UNCHANGED joinCalls
    /\ UNCHANGED << queueVars, runVars, thrVars, hostVars, initVars, nameVars,
                    retryVars, loopVars, failures, quitCalls, hostCalls, dataVars >>

\* eventThread.join() blocks until the event thread has left runEventThread.
\* When another caller has joined the thread meanwhile, join() throws
\* std::system_error, which stop() catches.
HciAdapterJoin(t) ==
    /\ pc[t] = "hci_join"
    /\ JoinReturns(eventThread)
    /\ eventThread' = Joined(eventThread)
    /\ Goto(t, "main_loop_quit")
    /\ UNCHANGED << queueVars, runVars, serverThread, hostVars, initVars, nameVars,
                    retryVars, loopVars, countVars, hostCalls, dataVars >>

\* if (nullptr != pMainLoop) g_main_loop_quit(pMainLoop): is_running becomes
\* FALSE
MainLoopQuit(t) ==
    /\ pc[t] = "main_loop_quit"
    /\ IF pMainLoop
       THEN /\ mainLoopRunning' = FALSE
            /\ quitCalls' = quitCalls + 1
       ELSE UNCHANGED << mainLoopRunning, quitCalls >>
    /\ Return(t)
    /\ UNCHANGED << queueVars, runVars, thrVars, hostVars, initVars, nameVars,
                    retryVars, pMainLoop, mainLoopRefs, pending, failures, joinCalls, hostCalls,
                    dataVars >>

\* ------------------------------------------------------------------------
\* HciAdapter event thread (HciAdapter.cpp)
\* ------------------------------------------------------------------------

\* runEventThread, at the top of its loop or inside hciSocket.read, leaves
\* its loop when the run state is past ERunning (waitForDataOrShutdown
\* returns false) and disconnects the socket
EventThreadShutdown ==
    /\ eventThread = "running"
    /\ eventLoop.pc = "read"
    /\ pc # Aborted
    /\ ggkIsServerRunning = 0
    /\ eventThread' = "finished"
    /\ UNCHANGED << queueVars, runVars, ctlVars, serverThread, hostVars, initVars,
                    nameVars, retryVars, loopVars, countVars, hostCalls, dataVars >>

\* runEventThread leaves its loop on a socket error (select or recv fails,
\* the peer closes the socket)
EventThreadSocketError ==
    /\ eventThread = "running"
    /\ eventLoop.pc = "read"
    /\ pc # Aborted
    /\ Len(failures) < MaxFailures
    /\ failures' = Append(failures, "EventThreadSocketError")
    /\ eventThread' = "finished"
    /\ UNCHANGED << queueVars, runVars, ctlVars, serverThread, hostVars, initVars,
                    nameVars, retryVars, loopVars, quitCalls, joinCalls,
                    hostCalls, dataVars >>

\* ------------------------------------------------------------------------
\* The embedding API (Gobbledegook.cpp), called by the host thread
\* ------------------------------------------------------------------------

\* ::tolower on the letters that occur in the service names
ToLowerChar(c) ==
    IF c = "G" THEN "g" ELSE IF c = "K" THEN "k" ELSE c

\* Server::Server: this->serviceName = serviceName, transformed by ::tolower
ServerServiceName(pServiceName) ==
    [ k \in 1..Len(pServiceName) |-> ToLowerChar(pServiceName[k]) ]

\* ggkStart(pServiceName, ...): TheServer = std::make_shared<Server>(...);
\* serverThread = std::thread(runServerThread)
StartSpawnNamed(pServiceName) ==
    /\ pc["host"] = "ggkStart"
    /\ serviceName' = ServerServiceName(pServiceName)
    /\ serverThread' = "running"
    /\ pc' = [ pc EXCEPT !["host"] = "start_poll", !["server"] = "runServerThread" ]
    /\ UNCHANGED << queueVars, runVars, stack, eventThread, hostVars, initVars,
                    nameVars, retryVars, loopVars, countVars, hostCalls,
                    serverDataTextString, methodReply, hciVars, cmdVars, dbusVars, busObjects >>

\* ggkStart with the service name of the D-Bus permissions the repository
\* ships
StartSpawn == StartSpawnNamed(kServerName)

\* ggkStart: std::thread throws std::system_error
StartSpawnFails ==
    /\ pc["host"] = "ggkStart"
    /\ Len(failures) < MaxFailures
    /\ failures' = Append(failures, "StartSpawnFails")
    /\ serverRunState' = EStopped
    /\ startResult' = 0
    /\ serviceName' = ServerServiceName(kServerName)
    /\ Goto("host", "host")
    /\ UNCHANGED << queueVars, serverHealth, wasRunning, thrVars, retryTimeMS,
                    waitResult, startWait, shutdownAndWait, initVars, nameVars,
                    retryVars, loopVars, quitCalls, joinCalls, hostCalls,
                    serverDataTextString, methodReply, hciVars, cmdVars, dbusVars, busObjects >>

\* while (retryTimeMS < maxAsyncInitTimeoutMS && ggkGetServerRunState() <= EInitializing)
StartKeepsPolling == retryTimeMS < MaxAsyncInitPolls /\ serverRunState <= EInitializing

\* ggkStart: one evaluation of the poll loop's condition, and the sleep
StartPoll ==
    /\ pc["host"] = "start_poll"
    /\ IF StartKeepsPolling
       THEN /\ retryTimeMS' = retryTimeMS + 1
            /\ UNCHANGED << pc, stack, startWait >>
       ELSE /\ startWait' = IF wasRunning THEN "running" ELSE "not_running"
            /\ Goto("host", "start_timeout")
            /\ UNCHANGED retryTimeMS
    /\ UNCHANGED << queueVars, runVars, thrVars, startResult, waitResult,
                    shutdownAndWait, initVars, nameVars, retryVars, loopVars,
                    countVars, hostCalls, dataVars >>

\* if (retryTimeMS >= maxAsyncInitTimeoutMS)
StartTimedOut == retryTimeMS >= MaxAsyncInitPolls

\* ggkStart: on a timeout setServerHealth(EFailedInit) and shutdown()
StartTimeout ==
    /\ pc["host"] = "start_timeout"
    /\ IF StartTimedOut
       THEN /\ serverHealth' = EFailedInit
            /\ CallSub("host", "shutdown", << "start_check" >>)
       ELSE /\ Goto("host", "start_check")
            /\ UNCHANGED serverHealth
    /\ UNCHANGED << queueVars, serverRunState, wasRunning, thrVars, hostVars, initVars,
                    nameVars, retryVars, loopVars, countVars, hostCalls, dataVars >>

\* ggkStart: if (ggkGetServerRunState() != ERunning) ggkWait() and return 0,
\* otherwise return 1
StartCheck ==
    /\ pc["host"] = "start_check"
    /\ IF serverRunState # ERunning
       THEN /\ Goto("host", "start_wait")
            /\ UNCHANGED startResult
       ELSE /\ Goto("host", "host")
            /\ startResult' = 1
    /\ UNCHANGED << queueVars, runVars, thrVars, retryTimeMS, waitResult, startWait,
                    shutdownAndWait, initVars, nameVars, retryVars, loopVars,
                    countVars, hostCalls, dataVars >>

\* A ggkWait that does not join the server thread
ReturnsWithoutJoin == TRUE

\* ggkWait: if (serverThread.joinable()) serverThread.join(); result = 1
ggkWaitReturns == JoinReturns(serverThread)

\* ggkStart: ggkWait() has returned, return 0
StartWait ==
    /\ pc["host"] = "start_wait"
    /\ ggkWaitReturns
    /\ serverThread' = Joined(serverThread)
    /\ startResult' = 0
    /\ Goto("host", "host")
    /\ UNCHANGED << queueVars, runVars, eventThread, retryTimeMS, waitResult, startWait,
                    shutdownAndWait, initVars, nameVars, retryVars, loopVars,
                    countVars, hostCalls, dataVars >>

\* After ggkStart has returned the host calls ggkWait
HostWait ==
    /\ pc["host"] = "host"
    /\ Goto("host", "ggkWait")
    /\ UNCHANGED << queueVars, runVars, thrVars, hostVars, initVars, nameVars,
                    retryVars, loopVars, countVars, hostCalls, dataVars >>

\* After ggkStart has returned the host calls ggkShutdownAndWait:
\* if (ggkIsServerRunning() != 0) ggkTriggerShutdown(); return ggkWait()
HostShutdownAndWait ==
    /\ pc["host"] = "host"
    /\ shutdownAndWait' = IF serverRunState = ERunning /\ serverHealth = EOk
                          THEN "running_ok"
                          ELSE "other"
    /\ IF ggkIsServerRunning # 0
       THEN CallSub("host", "shutdown", << "ggkWait" >>)
       ELSE Goto("host", "ggkWait")
    /\ UNCHANGED << queueVars, runVars, thrVars, retryTimeMS, startResult, waitResult,
                    startWait, initVars, nameVars, retryVars, loopVars, countVars, hostCalls,
                    dataVars >>

\* ggkWait joins the server thread and returns 1
Wait ==
    /\ pc["host"] = "ggkWait"
    /\ ggkWaitReturns
    /\ serverThread' = Joined(serverThread)
    /\ waitResult' = 1
    /\ Goto("host", "returned")
    /\ UNCHANGED << queueVars, runVars, eventThread, retryTimeMS, startResult,
                    startWait, shutdownAndWait, initVars, nameVars, retryVars,
                    loopVars, countVars, hostCalls, dataVars >>

\* Another thread, or a signal handler, calls ggkTriggerShutdown at any
\* moment after ggkStart has spawned the server thread
TriggerShutdown ==
    /\ pc["ext"] = "idle"
    /\ serverThread # "none"
    /\ CallSub("ext", "shutdown", << "returned" >>)
    /\ UNCHANGED << queueVars, runVars, thrVars, hostVars, initVars, nameVars,
                    retryVars, loopVars, countVars, hostCalls, dataVars >>

\* The host calls ggkNofifyUpdatedCharacteristic(pObjectPath), from any of its
\* threads, once ggkStart has returned
ggkNofifyUpdatedCharacteristic(pObjectPath) ==
    /\ startResult # -1
    /\ PushUpdateQueue(pObjectPath, kGattCharacteristicInterface)
    /\ UNCHANGED lifeVars

\* The host calls ggkNofifyUpdatedDescriptor(pObjectPath), from any of its
\* threads, once ggkStart has returned
ggkNofifyUpdatedDescriptor(pObjectPath) ==
    /\ startResult # -1
    /\ PushUpdateQueue(pObjectPath, kGattDescriptorInterface)
    /\ UNCHANGED lifeVars

\* ------------------------------------------------------------------------
\* The server description (Server.cpp) as far as the idle drain sees it
\* ------------------------------------------------------------------------

\* Paths of the objects that carry a GattCharacteristic interface
CharacteristicPaths == { << "/","a" >> }

\* Paths of the objects that carry a GattDescriptor interface
DescriptorPaths == { << "/","a","/","d" >> }

\* Server::findInterface: the kind of the interface found at objectPath under
\* interfaceName, "null" when there is none
findInterface(objectPath, interfaceName) ==
    IF objectPath \in CharacteristicPaths /\ interfaceName = kGattCharacteristicInterface
    THEN "GattCharacteristic"
    ELSE IF objectPath \in DescriptorPaths /\ interfaceName = kGattDescriptorInterface
         THEN "GattDescriptor"
         ELSE "null"

\* std::string::find('|'): index of the first '|' at or after position i,
\* 0 when there is none (npos)
RECURSIVE FindFrom(_, _)
FindFrom(s, i) ==
    IF i > Len(s) THEN 0
    ELSE IF s[i] = "|" THEN i
    ELSE FindFrom(s, i + 1)

\* entryString.find('|')
FindToken(entryString) == FindFrom(entryString, 1)

\* entryString.substr(0, token)
EntryObjectPath(entryString) == SubSeq(entryString, 1, FindToken(entryString) - 1)

\* entryString.substr(token): the interface name with the separator in front
EntryInterfaceNameFromToken(entryString) ==
    SubSeq(entryString, FindToken(entryString), Len(entryString))

\* entryString.substr(token+1)
EntryInterfaceName(entryString) ==
    SubSeq(entryString, FindToken(entryString) + 1, Len(entryString))

\* ------------------------------------------------------------------------
\* Retry timer (Init.cpp)
\* ------------------------------------------------------------------------

\* setRetry / setRetryFailure: retryTimeStart = time(nullptr)
setRetry ==
    /\ retryTimeStart' = 1
    /\ retryElapsed' = 0

\* int secondsRemaining = time(nullptr) - retryTimeStart - kRetryDelaySeconds;
\* secondsRemaining >= 0
RetryExpired == retryElapsed - kRetryDelaySeconds >= 0

\* One second passes while a retry is pending
ClockTick ==
    /\ retryTimeStart # 0
    /\ retryElapsed < kRetryDelaySeconds
    /\ retryElapsed' = retryElapsed + 1
    /\ UNCHANGED << queueVars, runVars, ctlVars, thrVars, hostVars, initVars, nameVars,
                    retryTimeStart, loopVars, countVars, hostCalls, dataVars >>

\* ------------------------------------------------------------------------
\* initializationStateProcessor (Init.cpp), run by the server thread
\* ------------------------------------------------------------------------

\* A state processor that does not wait for the application to be registered
StateProcessorStepUnregistered ==
    IF ~pBusConnection THEN "doBusAcquire"
    ELSE IF ~bOwnedNameAcquired THEN "doOwnedNameAcquire"
    ELSE IF ~pBluezObjectManager THEN "getBluezObjectManager"
    ELSE IF ~bluezGattManagerInterfaceName THEN "findAdapterInterface"
    ELSE IF ~bAdapterConfigured THEN "configureAdapter"
    ELSE IF registeredObjectIds = {} THEN "registerObjects"
    ELSE IF serverHealth # EOk THEN "shutdown"
    ELSE "setServerRunState"

\* The branch initializationStateProcessor takes
StateProcessorStep ==
    IF ~pBusConnection THEN "doBusAcquire"
    ELSE IF ~bOwnedNameAcquired THEN "doOwnedNameAcquire"
    ELSE IF ~pBluezObjectManager THEN "getBluezObjectManager"
    ELSE IF ~bluezGattManagerInterfaceName THEN "findAdapterInterface"
    ELSE IF ~bAdapterConfigured THEN "configureAdapter"
    ELSE IF registeredObjectIds = {} THEN "registerObjects"
    ELSE IF ~bApplicationRegistered THEN "doRegisterApplication"
    ELSE IF serverHealth # EOk THEN "shutdown"
    ELSE "setServerRunState"

AtStateProcessor(step) == pc["server"] = "isp_step" /\ StateProcessorStep = step

\* One more asynchronous completion of op is on its way
Started(op) == [ pending EXCEPT ![op] = @ + 1 ]

\* The completion of op has been delivered
Delivered(op) == [ pending EXCEPT ![op] = @ - 1 ]

\* if (ggkGetServerRunState() > ERunning || 0 != retryTimeStart)
StateProcessorBlocked == serverRunState > ERunning \/ retryTimeStart # 0

\* Neither end of life nor waiting for a retry: go on to the steps
IspEnter ==
    /\ pc["server"] = "isp"
    /\ ~StateProcessorBlocked
    /\ Goto("server", "isp_step")
    /\ UNCHANGED << queueVars, runVars, thrVars, hostVars, initVars, nameVars,
                    retryVars, loopVars, countVars, hostCalls, dataVars >>

\* End of life or waiting for a retry: return
IspReturn ==
    /\ pc["server"] = "isp"
    /\ StateProcessorBlocked
    /\ Return("server")
    /\ UNCHANGED << queueVars, runVars, thrVars, hostVars, initVars, nameVars,
                    retryVars, loopVars, countVars, hostCalls, dataVars >>

\* doBusAcquire: g_bus_get
IspBusAcquire ==
    /\ AtStateProcessor("doBusAcquire")
    /\ pending' = Started("bus")
    /\ Return("server")
    /\ UNCHANGED << queueVars, runVars, thrVars, hostVars, initVars, nameVars,
                    retryVars, pMainLoop, mainLoopRefs, mainLoopRunning, countVars, hostCalls,
                    dataVars >>

\* doOwnedNameAcquire: bOwnedNameAcquired = false;
\* ownedNameId = g_bus_own_name_on_connection
IspOwnedNameAcquire ==
    /\ AtStateProcessor("doOwnedNameAcquire")
    /\ bOwnedNameAcquired' = FALSE
    /\ ownedNameId' = ownedNameId + 1
    /\ pending' = Started("name")
    /\ Return("server")
    /\ UNCHANGED << queueVars, runVars, thrVars, hostVars, pBusConnection,
                    pBluezObjectManager, bluezGattManagerInterfaceName,
                    bAdapterConfigured, registeredObjectIds, bApplicationRegistered,
                    periodicTimeoutId, timers, retryVars, pMainLoop, mainLoopRefs, mainLoopRunning,
                    countVars, hostCalls, dataVars >>

\* getBluezObjectManager: g_dbus_object_manager_client_new
IspGetBluezObjectManager ==
    /\ AtStateProcessor("getBluezObjectManager")
    /\ pending' = Started("objmgr")
    /\ Return("server")
    /\ UNCHANGED << queueVars, runVars, thrVars, hostVars, initVars, nameVars,
                    retryVars, pMainLoop, mainLoopRefs, mainLoopRunning, countVars, hostCalls,
                    dataVars >>

\* findAdapterInterface finds the GattManager1 interface and calls the state
\* processor again
IspFindAdapterInterface ==
    /\ AtStateProcessor("findAdapterInterface")
    /\ bluezGattManagerInterfaceName' = TRUE
    /\ Goto("server", "isp")
    /\ UNCHANGED << queueVars, runVars, thrVars, hostVars, pBusConnection,
                    bOwnedNameAcquired, pBluezObjectManager, bAdapterConfigured,
                    registeredObjectIds, bApplicationRegistered, nameVars, retryVars,
                    loopVars, countVars, hostCalls, dataVars >>

\* findAdapterInterface finds no adapter: setRetryFailure
IspFindAdapterInterfaceFails ==
    /\ AtStateProcessor("findAdapterInterface")
    /\ Len(failures) < MaxFailures
    /\ failures' = Append(failures, "IspFindAdapterInterfaceFails")
    /\ setRetry
    /\ Return("server")
    /\ UNCHANGED << queueVars, runVars, thrVars, hostVars, initVars, nameVars,
                    loopVars, quitCalls, joinCalls, hostCalls, dataVars >>

\* configureAdapter is entered
IspConfigureAdapter ==
    /\ AtStateProcessor("configureAdapter")
    /\ Goto("server", "configureAdapter")
    /\ UNCHANGED << queueVars, runVars, thrVars, hostVars, initVars, nameVars,
                    retryVars, loopVars, countVars, hostCalls, dataVars >>

\* configureAdapter sends its first command. HciAdapter::sendCommand starts
\* the event thread when it is not joinable; a thread that has finished but
\* was never joined is joinable, so it is not started again and the write to
\* the disconnected socket fails.
ConfigureAdapterSend ==
    /\ pc["server"] = "configureAdapter"
    /\ IF eventThread = "finished"
       THEN /\ setRetry
            /\ Return("server")
            /\ UNCHANGED eventThread
       ELSE /\ eventThread' = "running"
            /\ Goto("server", "configure_wait")
            /\ UNCHANGED retryVars
    /\ UNCHANGED << queueVars, runVars, serverThread, hostVars, initVars, nameVars,
                    loopVars, countVars, hostCalls, dataVars >>

\* configureAdapter: every command was answered; bAdapterConfigured = true
\* and the state processor is called again
ConfigureAdapterDone ==
    /\ pc["server"] = "configure_wait"
    /\ eventThread = "running"
    /\ bAdapterConfigured' = TRUE
    /\ Goto("server", "isp")
    /\ UNCHANGED << queueVars, runVars, thrVars, hostVars, pBusConnection,
                    bOwnedNameAcquired, pBluezObjectManager,
                    bluezGattManagerInterfaceName, registeredObjectIds,
                    bApplicationRegistered, nameVars, retryVars, loopVars, countVars, hostCalls,
                    dataVars >>

\* configureAdapter: a command gets no response event within
\* kMaxEventWaitTimeMS: setRetry
ConfigureAdapterFails ==
    /\ pc["server"] = "configure_wait"
    /\ eventThread = "running"
    /\ Len(failures) < MaxFailures
    /\ failures' = Append(failures, "ConfigureAdapterFails")
    /\ setRetry
    /\ Return("server")
    /\ UNCHANGED << queueVars, runVars, thrVars, hostVars, initVars, nameVars,
                    loopVars, quitCalls, joinCalls, hostCalls, dataVars >>

\* configureAdapter: the event thread is gone, so the command is not answered
\* within kMaxEventWaitTimeMS: setRetry
ConfigureAdapterTimesOut ==
    /\ pc["server"] = "configure_wait"
    /\ eventThread # "running"
    /\ setRetry
    /\ Return("server")
    /\ UNCHANGED << queueVars, runVars, thrVars, hostVars, initVars, nameVars,
                    loopVars, countVars, hostCalls, dataVars >>

\* The interfaces of the object tree in the order registerObjects comes to
\* them: a service, its characteristic, a second service. The registration
\* id of an interface is written as the interface
InterfaceNodes == << "device", "mfgr_name", "battery" >>

\* The nodes below a node of the tree
Descendants(n) == IF n = "device" THEN { "mfgr_name" } ELSE {}

\* The ids of the whole tree
ObjectIds == { InterfaceNodes[i] : i \in 1..Len(InterfaceNodes) }

\* The nodes left to visit once registerNodeHierarchy has returned from n
\* without going into its children
SkipDescendants(n, rest) == SelectSeq(rest, LAMBDA m : m \notin Descendants(n))

\* registerNodeHierarchy over the nodes left to visit.
\* g_dbus_connection_register_object returns 0 for the interfaces in failing
\* and for an interface that is already exported on the connection; then
\* registeredObjectIds.clear(), setRetryFailure() and return, which leaves
\* this node's children out while the caller goes on with the nodes after
\* it. Otherwise registeredObjectIds.push_back(registeredObjectId)
RECURSIVE registerNodeHierarchy(_, _, _)
registerNodeHierarchy(walk, reg, failing) ==
    IF walk = << >>
    THEN reg
    ELSE LET n == Head(walk)
         IN IF n \in failing \/ n \in reg.bus
            THEN registerNodeHierarchy(SkipDescendants(n, Tail(walk)),
                                       [ ids |-> {}, bus |-> reg.bus, failed |-> TRUE ],
                                       failing)
            ELSE registerNodeHierarchy(Tail(walk),
                                       [ ids |-> reg.ids \cup { n },
                                         bus |-> reg.bus \cup { n },
                                         failed |-> reg.failed ],
                                       failing)

\* registerObjects: the ids remembered and the interfaces exported when it
\* is through with the tree, and whether a registration failed
registerObjects(failing) ==
    registerNodeHierarchy(InterfaceNodes,
                          [ ids |-> registeredObjectIds, bus |-> busObjects,
                            failed |-> FALSE ],
                          failing)

\* What the failure path's g_dbus_node_info_unref(pNode) leads to: the node
\* is released a second time when registerObjects unrefs the tree, a use of
\* freed memory that the process survives or that aborts it
UnrefOutcomes == { "survives", "aborts" }

\* registerObjects registers the tree and calls the state processor again
IspRegisterObjects ==
    /\ AtStateProcessor("registerObjects")
    /\ ~registerObjects({}).failed
    /\ registeredObjectIds' = registerObjects({}).ids
    /\ busObjects' = registerObjects({}).bus
    /\ Goto("server", "isp")
    /\ UNCHANGED << queueVars, runVars, thrVars, hostVars, pBusConnection,
                    bOwnedNameAcquired, pBluezObjectManager,
                    bluezGattManagerInterfaceName, bAdapterConfigured,
                    bApplicationRegistered, nameVars, retryVars, loopVars, countVars,
                    hostCalls, serverDataTextString, serviceName, methodReply, hciVars,
                    cmdVars, dbusVars >>

\* registerObjects with a registration that fails: the tree is walked to its
\* end all the same, a retry is pending, and the state processor is called
\* again
IspRegisterObjectsFails ==
    /\ AtStateProcessor("registerObjects")
    /\ \E failing \in SUBSET ObjectIds, outcome \in UnrefOutcomes :
          /\ registerObjects(failing).failed
          /\ IF failing = {}
             THEN UNCHANGED failures
             ELSE /\ Len(failures) < MaxFailures
                  /\ failures' = Append(failures, "IspRegisterObjectsFails")
          /\ registeredObjectIds' = registerObjects(failing).ids
          /\ busObjects' = registerObjects(failing).bus
          /\ IF outcome = "aborts"
             THEN pc' = Aborted /\ UNCHANGED stack
             ELSE Goto("server", "isp")
    /\ setRetry
    /\ UNCHANGED << queueVars, runVars, thrVars, hostVars, pBusConnection,
                    bOwnedNameAcquired, pBluezObjectManager,
                    bluezGattManagerInterfaceName, bAdapterConfigured,
                    bApplicationRegistered, nameVars, loopVars, quitCalls, joinCalls,
                    hostCalls, serverDataTextString, serviceName, methodReply, hciVars,
                    cmdVars, dbusVars >>

\* doRegisterApplication: g_dbus_proxy_call("RegisterApplication")
IspRegisterApplication ==
    /\ AtStateProcessor("doRegisterApplication")
    /\ pending' = Started("regapp")
    /\ Return("server")
    /\ UNCHANGED << queueVars, runVars, thrVars, hostVars, initVars, nameVars,
                    retryVars, pMainLoop, mainLoopRefs, mainLoopRunning, countVars, hostCalls,
                    dataVars >>

\* Fully initialized but not healthy: shutdown(); return
IspUnhealthy ==
    /\ AtStateProcessor("shutdown")
    /\ Goto("server", "shutdown")
    /\ UNCHANGED << queueVars, runVars, thrVars, hostVars, initVars, nameVars,
                    retryVars, loopVars, countVars, hostCalls, dataVars >>

\* Fully initialized and healthy: go on to setServerRunState(ERunning)
IspHealthy ==
    /\ AtStateProcessor("setServerRunState")
    /\ Goto("server", "isp_running")
    /\ UNCHANGED << queueVars, runVars, thrVars, hostVars, initVars, nameVars,
                    retryVars, loopVars, countVars, hostCalls, dataVars >>

\* setServerRunState(ERunning)
IspSetRunning ==
    /\ pc["server"] = "isp_running"
    /\ serverRunState' = ERunning
    /\ wasRunning' = TRUE
    /\ Return("server")
    /\ UNCHANGED << queueVars, serverHealth, thrVars, hostVars, initVars, nameVars,
                    retryVars, loopVars, countVars, hostCalls, dataVars >>

\* ------------------------------------------------------------------------
\* runServerThread and the GLib main loop (Init.cpp)
\* ------------------------------------------------------------------------

\* setServerRunState(EInitializing); initializationStateProcessor()
RunServerThread ==
    /\ pc["server"] = "runServerThread"
    /\ serverRunState' = EInitializing
    /\ CallSub("server", "isp", << "g_main_loop_new" >>)
    /\ UNCHANGED << queueVars, serverHealth, wasRunning, thrVars, hostVars, initVars,
                    nameVars, retryVars, loopVars, countVars, hostCalls, dataVars >>

\* pMainLoop = g_main_loop_new(NULL, FALSE); g_idle_add
MainLoopNew ==
    /\ pc["server"] = "g_main_loop_new"
    /\ pMainLoop' = TRUE
    /\ mainLoopRefs' = 1
    /\ Goto("server", "g_main_loop_run")
    /\ UNCHANGED << queueVars, runVars, thrVars, hostVars, initVars, nameVars,
                    retryVars, mainLoopRunning, pending, countVars,
                    hostCalls, dataVars >>

\* g_main_loop_run sets is_running and iterates while it is set
MainLoopRun ==
    /\ pc["server"] = "g_main_loop_run"
    /\ mainLoopRunning' = TRUE
    /\ Goto("server", "loop")
    /\ UNCHANGED << queueVars, runVars, thrVars, hostVars, initVars, nameVars,
                    retryVars, pMainLoop, mainLoopRefs, pending, countVars, hostCalls, dataVars >>

\* The main loop dispatches one source per iteration, while is_running is set
CanDispatch(s) ==
    /\ pc["server"] = "loop"
    /\ mainLoopRunning

\* The callback of source s is entered
Dispatch(s, label, returnTo) == CallSub("server", label, returnTo)

\* The callback of source s has run and returned in one step
Dispatched(s) == UNCHANGED ctlVars

\* g_bus_get completes with a connection: initializationStateProcessor()
BusAcquired ==
    /\ CanDispatch("bus")
    /\ pending["bus"] > 0
    /\ pending' = Delivered("bus")
    /\ pBusConnection' = TRUE
    /\ Dispatch("bus", "isp", << "loop" >>)
    /\ UNCHANGED << queueVars, runVars, thrVars, hostVars, bOwnedNameAcquired,
                    pBluezObjectManager, bluezGattManagerInterfaceName,
                    bAdapterConfigured, registeredObjectIds, bApplicationRegistered,
                    nameVars, retryVars, pMainLoop, mainLoopRefs, mainLoopRunning, countVars,
                    hostCalls, dataVars >>

\* A g_bus_get failure handled like the recoverable failures: setRetryFailure();
\* return
BusAcquireFailsRetries ==
    /\ CanDispatch("bus")
    /\ pending["bus"] > 0
    /\ Len(failures) < MaxFailures
    /\ failures' = Append(failures, "BusAcquireFails")
    /\ pending' = Delivered("bus")
    /\ pBusConnection' = FALSE
    /\ setRetry
    /\ Dispatched("bus")
    /\ UNCHANGED << queueVars, runVars, thrVars, hostVars, bOwnedNameAcquired,
                    pBluezObjectManager, bluezGattManagerInterfaceName,
                    bAdapterConfigured, registeredObjectIds, bApplicationRegistered,
                    nameVars, pMainLoop, mainLoopRefs, mainLoopRunning, quitCalls, joinCalls,
                    hostCalls, dataVars >>

\* g_bus_get fails: setServerHealth(EFailedInit); shutdown();
\* initializationStateProcessor()
BusAcquireFails ==
    /\ CanDispatch("bus")
    /\ pending["bus"] > 0
    /\ Len(failures) < MaxFailures
    /\ failures' = Append(failures, "BusAcquireFails")
    /\ pending' = Delivered("bus")
    /\ pBusConnection' = FALSE
    /\ serverHealth' = EFailedInit
    /\ Dispatch("bus", "shutdown", << "isp", "loop" >>)
    /\ UNCHANGED << queueVars, serverRunState, wasRunning, thrVars, hostVars,
                    bOwnedNameAcquired, pBluezObjectManager,
                    bluezGattManagerInterfaceName, bAdapterConfigured,
                    registeredObjectIds, bApplicationRegistered, nameVars, retryVars,
                    pMainLoop, mainLoopRefs, mainLoopRunning, quitCalls, joinCalls, hostCalls,
                    dataVars >>

\* name_acquired_handler: periodicTimeoutId = g_timeout_add_seconds(...);
\* bOwnedNameAcquired = true; initializationStateProcessor()
NameAcquired ==
    /\ CanDispatch("name")
    /\ pending["name"] > 0
    /\ pending' = Delivered("name")
    /\ periodicTimeoutId' = ownedNameId
    /\ timers' = timers \cup { ownedNameId }
    /\ bOwnedNameAcquired' = TRUE
    /\ Dispatch("name", "isp", << "loop" >>)
    /\ UNCHANGED << queueVars, runVars, thrVars, hostVars, pBusConnection,
                    pBluezObjectManager, bluezGattManagerInterfaceName,
                    bAdapterConfigured, registeredObjectIds, bApplicationRegistered,
                    ownedNameId, retryVars, pMainLoop, mainLoopRefs, mainLoopRunning, countVars,
                    hostCalls, dataVars >>

\* A name_lost_handler that schedules a retry whether or not a periodic
\* timer exists
NameLostRetries ==
    /\ CanDispatch("namelost")
    /\ ownedNameId > 0
    /\ Len(failures) < MaxFailures
    /\ failures' = Append(failures, "NameLost")
    /\ pending' = IF pending["name"] > 0 THEN Delivered("name") ELSE pending
    /\ bOwnedNameAcquired' = FALSE
    /\ setRetry
    /\ Dispatched("namelost")
    /\ UNCHANGED << queueVars, runVars, thrVars, hostVars,
                    pBusConnection, pBluezObjectManager, bluezGattManagerInterfaceName,
                    bAdapterConfigured, registeredObjectIds, bApplicationRegistered,
                    nameVars, pMainLoop, mainLoopRefs, mainLoopRunning, quitCalls, joinCalls,
                    hostCalls, dataVars >>

\* name_lost_handler: bOwnedNameAcquired = false; without a periodic timer
\* setServerHealth(EFailedInit), shutdown() and
\* initializationStateProcessor(), with one setRetryFailure()
NameLost ==
    /\ CanDispatch("namelost")
    /\ ownedNameId > 0
    /\ Len(failures) < MaxFailures
    /\ failures' = Append(failures, "NameLost")
    /\ pending' = IF pending["name"] > 0 THEN Delivered("name") ELSE pending
    /\ bOwnedNameAcquired' = FALSE
    /\ IF periodicTimeoutId = 0
       THEN /\ serverHealth' = EFailedInit
            /\ Dispatch("namelost", "shutdown", << "isp", "loop" >>)
            /\ UNCHANGED retryVars
       ELSE /\ setRetry
            /\ Dispatched("namelost")
            /\ UNCHANGED serverHealth
    /\ UNCHANGED << queueVars, serverRunState, wasRunning, thrVars, hostVars,
                    pBusConnection, pBluezObjectManager, bluezGattManagerInterfaceName,
                    bAdapterConfigured, registeredObjectIds, bApplicationRegistered,
                    nameVars, pMainLoop, mainLoopRefs, mainLoopRunning, quitCalls, joinCalls,
                    hostCalls, dataVars >>

\* g_dbus_object_manager_client_new completes with BlueZ's ObjectManager:
\* initializationStateProcessor()
ObjectManagerAcquired ==
    /\ CanDispatch("objmgr")
    /\ pending["objmgr"] > 0
    /\ pending' = Delivered("objmgr")
    /\ pBluezObjectManager' = TRUE
    /\ Dispatch("objmgr", "isp", << "loop" >>)
    /\ UNCHANGED << queueVars, runVars, thrVars, hostVars, pBusConnection,
                    bOwnedNameAcquired, bluezGattManagerInterfaceName,
                    bAdapterConfigured, registeredObjectIds, bApplicationRegistered,
                    nameVars, retryVars, pMainLoop, mainLoopRefs, mainLoopRunning, countVars,
                    hostCalls, dataVars >>

\* g_dbus_object_manager_client_new fails: setRetryFailure(); return
ObjectManagerFails ==
    /\ CanDispatch("objmgr")
    /\ pending["objmgr"] > 0
    /\ Len(failures) < MaxFailures
    /\ failures' = Append(failures, "ObjectManagerFails")
    /\ pending' = Delivered("objmgr")
    /\ pBluezObjectManager' = FALSE
    /\ setRetry
    /\ Dispatched("objmgr")
    /\ UNCHANGED << queueVars, runVars, thrVars, hostVars, pBusConnection,
                    bOwnedNameAcquired, bluezGattManagerInterfaceName,
                    bAdapterConfigured, registeredObjectIds, bApplicationRegistered,
                    nameVars, pMainLoop, mainLoopRefs, mainLoopRunning, quitCalls, joinCalls,
                    hostCalls, dataVars >>

\* RegisterApplication returns: bApplicationRegistered = true;
\* initializationStateProcessor()
ApplicationRegistered ==
    /\ CanDispatch("regapp")
    /\ pending["regapp"] > 0
    /\ pending' = Delivered("regapp")
    /\ bApplicationRegistered' = TRUE
    /\ Dispatch("regapp", "isp", << "loop" >>)
    /\ UNCHANGED << queueVars, runVars, thrVars, hostVars, pBusConnection,
                    bOwnedNameAcquired, pBluezObjectManager,
                    bluezGattManagerInterfaceName, bAdapterConfigured,
                    registeredObjectIds, nameVars, retryVars, pMainLoop, mainLoopRefs,
                    mainLoopRunning, countVars, hostCalls, dataVars >>

\* RegisterApplication fails: setRetryFailure(); initializationStateProcessor()
RegisterApplicationFails ==
    /\ CanDispatch("regapp")
    /\ pending["regapp"] > 0
    /\ Len(failures) < MaxFailures
    /\ failures' = Append(failures, "RegisterApplicationFails")
    /\ pending' = Delivered("regapp")
    /\ setRetry
    /\ Dispatch("regapp", "isp", << "loop" >>)
    /\ UNCHANGED << queueVars, runVars, thrVars, hostVars, initVars, nameVars,
                    pMainLoop, mainLoopRefs, mainLoopRunning, quitCalls, joinCalls, hostCalls,
                    dataVars >>

\* The host callbacks that are not the on-updated hook: method handlers behind
\* remote method calls and onEvent hooks behind tick events
OtherHostCalls == SelectSeq(hostCalls, LAMBDA c : c[1] # "onUpdatedValue")

\* onPeriodicTimer past ERunning: return FALSE, which removes the source
PeriodicTimerStops(id) ==
    /\ CanDispatch("timer")
    /\ id \in timers
    /\ serverRunState > ERunning
    /\ timers' = timers \ { id }
    /\ Dispatched("timer")
    /\ UNCHANGED << queueVars, runVars, thrVars, hostVars, initVars, ownedNameId,
                    periodicTimeoutId, retryVars, loopVars, countVars, hostCalls, dataVars >>

\* onPeriodicTimer with an expired retry: retryTimeStart = 0;
\* initializationStateProcessor(), then the tick events
PeriodicTimerRetry(id) ==
    /\ CanDispatch("timer")
    /\ id \in timers
    /\ serverRunState <= ERunning
    /\ retryTimeStart # 0 /\ RetryExpired
    /\ retryTimeStart' = 0
    /\ retryElapsed' = 0
    /\ Dispatch("timer", "isp", << "tickEvents", "loop" >>)
    /\ UNCHANGED << queueVars, runVars, thrVars, hostVars, initVars, nameVars,
                    loopVars, countVars, hostCalls, dataVars >>

\* onPeriodicTimer with no retry pending or a retry that has not expired
PeriodicTimer(id) ==
    /\ CanDispatch("timer")
    /\ id \in timers
    /\ serverRunState <= ERunning
    /\ ~(retryTimeStart # 0 /\ RetryExpired)
    /\ Dispatch("timer", "tickEvents", << "loop" >>)
    /\ UNCHANGED << queueVars, runVars, thrVars, hostVars, initVars, nameVars,
                    retryVars, loopVars, countVars, hostCalls, dataVars >>

\* if (bApplicationRegistered) tickEvents on every published object: an
\* onEvent hook runs when its tick frequency is reached (due)
TickEvents(due) ==
    /\ pc["server"] = "tickEvents"
    /\ IF bApplicationRegistered /\ due /\ Len(OtherHostCalls) < MaxHostCalls
       THEN hostCalls' = Append(hostCalls, << "onEvent", << >> >>)
       ELSE UNCHANGED hostCalls
    /\ Return("server")
    /\ UNCHANGED << queueVars, runVars, thrVars, hostVars, initVars, nameVars,
                    retryVars, loopVars, countVars, dataVars >>

\* onMethodCall: a remote method call on a registered object runs the method
\* handler of the server description
MethodCall ==
    /\ CanDispatch("method")
    /\ registeredObjectIds # {}
    /\ Len(OtherHostCalls) < MaxHostCalls
    /\ hostCalls' = Append(hostCalls, << "method", << >> >>)
    /\ Dispatched("method")
    /\ UNCHANGED << queueVars, runVars, thrVars, hostVars, initVars, nameVars,
                    retryVars, loopVars, countVars, dataVars >>

\* The length of a C string: the number of bytes in front of the first zero
\* byte
strlen(bytes) ==
    LET zeros == { i \in 1..Len(bytes) : bytes[i] = Nul }
    IN  IF zeros = {} THEN Len(bytes)
        ELSE (CHOOSE i \in zeros : \A j \in zeros : i <= j) - 1

\* Utils::stringFromGVariantByteArray: the bytes are copied into a buffer that
\* ends with a zero byte and a std::string is made of the buffer's data()
stringFromGVariantByteArray(pAyBuffer) == SubSeq(pAyBuffer, 1, strlen(pAyBuffer))

\* Utils::gvariantFromByteArray(const char *): strlen(pStr) bytes of pStr
gvariantFromByteArray(pStr) ==
    IF pStr = << >> THEN << >> ELSE SubSeq(pStr, 1, strlen(pStr))

\* A dataSetter that does not know the name and stores nothing
dataSetterUnknownName(pData) == serverDataTextString

\* dataSetter("text/string", pData): serverDataTextString = (const char *) pData
dataSetter(pData) == SubSeq(pData, 1, strlen(pData))

\* The object path of the text characteristic
TextPath == << "/","a" >>

\* The WriteValue and ReadValue calls on the text characteristic so far
TextCalls == SelectSeq(hostCalls, LAMBDA c : c[1] \in { "WriteValue", "ReadValue" })

\* onMethodCall for WriteValue on the text characteristic: setDataPointer of
\* the written bytes as a string, then self.callOnUpdatedValue
TextWriteValue(pAyBuffer) ==
    /\ CanDispatch("method")
    /\ registeredObjectIds # {}
    /\ Len(TextCalls) < MaxMethodCalls
    /\ serverDataTextString' = dataSetter(stringFromGVariantByteArray(pAyBuffer))
    /\ hostCalls' = hostCalls \o << << "WriteValue", pAyBuffer >>,
                                    << "onUpdatedValue", TextPath >> >>
    /\ Dispatched("method")
    /\ UNCHANGED << queueVars, runVars, thrVars, hostVars, initVars, nameVars,
                    retryVars, loopVars, countVars, serviceName, methodReply, hciVars, cmdVars,
                    dbusVars, busObjects >>

\* onMethodCall for ReadValue on the text characteristic:
\* methodReturnValue(getDataPointer("text/string"))
TextReadValue ==
    /\ CanDispatch("method")
    /\ registeredObjectIds # {}
    /\ Len(TextCalls) < MaxMethodCalls
    /\ hostCalls' = Append(hostCalls,
                           << "ReadValue", gvariantFromByteArray(serverDataTextString) >>)
    /\ Dispatched("method")
    /\ UNCHANGED << queueVars, runVars, thrVars, hostVars, initVars, nameVars,
                    retryVars, loopVars, countVars, dataVars >>

\* Server::getOwnedName: std::string("com.") + getServiceName()
getOwnedName == << "c","o","m","." >> \o serviceName

\* #define kServerOwnedName (std::string("com.") + kServerName)
kServerOwnedName == << "c","o","m","." >> \o kServerName

\* ".NotImplemented"
NotImplementedSuffix ==
    << ".","N","o","t","I","m","p","l","e","m","e","n","t","e","d" >>

\* #define kErrorNotImplemented (kServerOwnedName + ".NotImplemented")
kErrorNotImplemented == kServerOwnedName \o NotImplementedSuffix

\* Method names a remote client calls
MethodNames == { "ReadValue", "WriteValue", "StartNotify" }

\* The methods of the server description, by path and interface
Methods ==
    { << TextPath, kGattCharacteristicInterface, "ReadValue" >>,
      << TextPath, kGattCharacteristicInterface, "WriteValue" >>,
      << << "/","a","/","d" >>, kGattDescriptorInterface, "ReadValue" >> }

\* Server::callMethod: true when a method of that name was found at the
\* path on the interface
callMethod(objectPath, interfaceName, methodName) ==
    << objectPath, interfaceName, methodName >> \in Methods

\* onMethodCall when callMethod finds no method:
\* g_dbus_method_invocation_return_dbus_error(kErrorNotImplemented)
MethodNotFound(pObjectPath, pInterfaceName, pMethodName) ==
    /\ CanDispatch("method")
    /\ registeredObjectIds # {}
    /\ ~callMethod(pObjectPath, pInterfaceName, pMethodName)
    /\ methodReply' = << "error", kErrorNotImplemented >>
    /\ Dispatched("method")
    /\ UNCHANGED << queueVars, runVars, thrVars, hostVars, initVars, nameVars,
                    retryVars, loopVars, countVars, hostCalls, serverDataTextString,
                    serviceName, hciVars, cmdVars, dbusVars, busObjects >>

\* idleFunc: if (ggkGetServerRunState() != ERunning) return false
IdleFunc ==
    /\ CanDispatch("idle")
    /\ IF serverRunState # ERunning
       THEN Dispatched("idle")
       ELSE Dispatch("idle", "idle_pop", << "loop" >>)
    /\ UNCHANGED << queueVars, runVars, thrVars, hostVars, initVars, nameVars,
                    retryVars, loopVars, countVars, hostCalls, dataVars >>

\* idleFunc: pop one entry, split it at the first '|', find the interface
\* and call the on-updated hook of a characteristic
IdlePop ==
    /\ pc["server"] = "idle_pop"
    /\ LET r == ggkPopUpdateQueue(updateQueue, << >>, kQueueEntryLen, 0)
           entryString == r.buffer
           objectPath == EntryObjectPath(entryString)
           interfaceName == EntryInterfaceName(entryString)
       IN  /\ updateQueue' = r.queue
           /\ nPopped' = nPopped + (IF r.ret = 1 THEN 1 ELSE 0)
           /\ IF /\ r.ret = 1
                 /\ FindToken(entryString) # 0
                 /\ findInterface(objectPath, interfaceName) = "GattCharacteristic"
              THEN hostCalls' = Append(hostCalls, << "onUpdatedValue", objectPath >>)
              ELSE UNCHANGED hostCalls
    /\ Return("server")
    /\ UNCHANGED << elementBuffer, call, pushLog, runVars, thrVars, hostVars, initVars,
                    nameVars, retryVars, loopVars, countVars, dataVars >>

\* g_main_loop_run returns once is_running is FALSE
MainLoopExit ==
    /\ pc["server"] = "loop"
    /\ ~mainLoopRunning
    /\ Goto("server", "stopped")
    /\ UNCHANGED << queueVars, runVars, thrVars, hostVars, initVars, nameVars,
                    retryVars, loopVars, countVars, hostCalls, dataVars >>

\* setServerRunState(EStopped)
ServerStopped ==
    /\ pc["server"] = "stopped"
    /\ serverRunState' = EStopped
    /\ Goto("server", "uninit")
    /\ UNCHANGED << queueVars, serverHealth, wasRunning, thrVars, hostVars, initVars,
                    nameVars, retryVars, loopVars, countVars, hostCalls, dataVars >>

\* uninit, after which runServerThread returns. It starts with pMainLoop = nullptr
\* and ends with if (nullptr != pMainLoop) g_main_loop_unref(pMainLoop)
Uninit ==
    /\ pc["server"] = "uninit"
    /\ pMainLoop' = FALSE
    /\ mainLoopRefs' = IF pMainLoop' THEN mainLoopRefs - 1 ELSE mainLoopRefs
    /\ pBluezObjectManager' = FALSE
    /\ registeredObjectIds' = {}
    /\ busObjects' = busObjects \ registeredObjectIds
    /\ timers' = timers \ { periodicTimeoutId }
    /\ periodicTimeoutId' = 0
    /\ pBusConnection' = FALSE
    /\ serverThread' = "finished"
    /\ Goto("server", "done")
    /\ UNCHANGED << queueVars, runVars, eventThread, hostVars, bOwnedNameAcquired,
                    bluezGattManagerInterfaceName, bAdapterConfigured,
                    bApplicationRegistered, ownedNameId, retryVars, mainLoopRunning,
                    pending, countVars, hostCalls, serverDataTextString, serviceName,
                    methodReply, hciVars, cmdVars, dbusVars >>

\* ------------------------------------------------------------------------
\* Adapter configuration (Init.cpp, Mgmt.cpp, HciAdapter.cpp)
\* ------------------------------------------------------------------------

\* HciAdapter::HciControllerSettings: the bits configureAdapter looks at
EHciPowered == "Powered"
EHciConnectable == "Connectable"
EHciBondable == "Bondable"
EHciBasicRate_EnhancedDataRate == "BR/EDR"
EHciLowEnergy == "LE"
EHciAdvertising == "Adv"
EHciSecureConnections == "SC"

HciControllerSettings ==
    { EHciPowered, EHciConnectable, EHciBondable, EHciBasicRate_EnhancedDataRate,
      EHciLowEnergy, EHciAdvertising, EHciSecureConnections }

\* Mgmt::kMaxAdvertisingNameLength, Mgmt::kMaxAdvertisingShortNameLength
kMaxAdvertisingNameLength == 248
kMaxAdvertisingShortNameLength == 10

\* Mgmt::truncateName
truncateName(name) ==
    IF Len(name) <= kMaxAdvertisingNameLength
    THEN name
    ELSE SubSeq(name, 1, kMaxAdvertisingNameLength)

\* Mgmt::truncateShortName
truncateShortName(name) ==
    IF Len(name) <= kMaxAdvertisingShortNameLength
    THEN name
    ELSE SubSeq(name, 1, kMaxAdvertisingShortNameLength)

\* Server::Server: enableBREDR = false; enableSecureConnection = false;
\* enableConnectable = true; enableAdvertising = true; enableBondable = false
getEnableBREDR == FALSE
getEnableSecureConnection == FALSE
getEnableConnectable == TRUE
getEnableAdvertising == TRUE
getEnableBondable == FALSE

\* The advertising names a host passes to ggkStart: none, a name that fits
\* and a short name longer than kMaxAdvertisingShortNameLength
AdvertisingNames == { << >>, << "d","e","m","o" >> }
AdvertisingShortNames == { << >>, << "G","o","b","b","l","e","d","e","g","o","o","k" >> }

\* The names a controller holds before the server starts
ControllerNames == { << >>, << "p","i" >> }

\* The states the controller can be in before the server starts
ControllerStates ==
    { [ masks |-> m, name |-> n, shortName |-> n ] :
        m \in SUBSET HciControllerSettings, n \in ControllerNames }

\* HciAdapter::controllerInformation of the static HciAdapter instance
\* before any Read Controller Information completion: all zero
ZeroControllerInformation ==
    [ currentSettings |-> {}, name |-> << >>, shortName |-> << >> ]

\* HciAdapter::runEventThread, EReadControllerInformationCommand:
\* controllerInformation = what the controller reports
ReadControllerInformation(c) ==
    [ currentSettings |-> c.masks, name |-> c.name, shortName |-> c.shortName ]

\* AdapterSettings::isSet
isSet(masks, mask) == mask \in masks

\* configureAdapter: "Are all of our settings the way we want them?"
pwFlag(info) == isSet(info.currentSettings, EHciPowered) = TRUE
leFlag(info) == isSet(info.currentSettings, EHciLowEnergy) = TRUE
brFlag(info) == isSet(info.currentSettings, EHciBasicRate_EnhancedDataRate) = getEnableBREDR
scFlag(info) == isSet(info.currentSettings, EHciSecureConnections) = getEnableSecureConnection
bnFlag(info) == isSet(info.currentSettings, EHciBondable) = getEnableBondable
cnFlag(info) == isSet(info.currentSettings, EHciConnectable) = getEnableConnectable
adFlag(info) == isSet(info.currentSettings, EHciAdvertising) = getEnableAdvertising
anFlag(info) ==
    /\ (Len(truncateName(advertisingName)) = 0 \/ truncateName(advertisingName) = info.name)
    /\ \/ Len(truncateShortName(advertisingShortName)) = 0
       \/ truncateShortName(advertisingShortName) = info.shortName

\* configureAdapter: "If everything is setup already, we're done"
AllFlags(info) ==
    /\ pwFlag(info) /\ leFlag(info) /\ brFlag(info) /\ scFlag(info)
    /\ bnFlag(info) /\ cnFlag(info) /\ adFlag(info) /\ anFlag(info)

\* newState ? 1 : 0
NewState(b) == IF b THEN 1 ELSE 0

\* The nine steps of configureAdapter, in the order of its code
MgmtSteps == 1..9

\* configureAdapter: the condition under which a step sends its command
StepNeeded(k, info) ==
    CASE k = 1 -> pwFlag(info)
      [] k = 2 -> ~leFlag(info)
      [] k = 3 -> ~brFlag(info)
      [] k = 4 -> ~scFlag(info)
      [] k = 5 -> ~bnFlag(info)
      [] k = 6 -> ~cnFlag(info)
      [] k = 7 -> ~adFlag(info)
      [] k = 8 -> ~anFlag(info)
      [] k = 9 -> TRUE

\* configureAdapter: the command a step sends: mgmt.setPowered(false),
\* setLE(true), setBredr, setSecureConnections, setBondable, setConnectable,
\* setAdvertising, setName, setPowered(true)
StepCommand(k) ==
    CASE k = 1 -> [ code |-> "ESetPoweredCommand", param |-> NewState(FALSE) ]
      [] k = 2 -> [ code |-> "ESetLowEnergyCommand", param |-> NewState(TRUE) ]
      [] k = 3 -> [ code |-> "ESetBREDRCommand", param |-> NewState(getEnableBREDR) ]
      [] k = 4 -> [ code |-> "ESetSecureConnectionsCommand",
                    param |-> NewState(getEnableSecureConnection) ]
      [] k = 5 -> [ code |-> "ESetBondableCommand", param |-> NewState(getEnableBondable) ]
      [] k = 6 -> [ code |-> "ESetConnectableCommand",
                    param |-> NewState(getEnableConnectable) ]
      [] k = 7 -> [ code |-> "ESetAdvertisingCommand",
                    param |-> NewState(getEnableAdvertising) ]
      [] k = 8 -> [ code |-> "ESetLocalNameCommand",
                    param |-> << truncateName(advertisingName),
                                 truncateShortName(advertisingShortName) >> ]
      [] k = 9 -> [ code |-> "ESetPoweredCommand", param |-> NewState(TRUE) ]

\* The step after step k whose command configureAdapter sends
NextStep(k, info) ==
    CHOOSE j \in MgmtSteps :
        /\ j > k
        /\ StepNeeded(j, info)
        /\ \A i \in MgmtSteps : (k < i /\ i < j) => ~StepNeeded(i, info)

\* The controller setting a settings command changes
SettingOf(code) ==
    CASE code = "ESetPoweredCommand" -> EHciPowered
      [] code = "ESetLowEnergyCommand" -> EHciLowEnergy
      [] code = "ESetBREDRCommand" -> EHciBasicRate_EnhancedDataRate
      [] code = "ESetSecureConnectionsCommand" -> EHciSecureConnections
      [] code = "ESetBondableCommand" -> EHciBondable
      [] code = "ESetConnectableCommand" -> EHciConnectable
      [] code = "ESetAdvertisingCommand" -> EHciAdvertising

\* The controller carries out a command
ControllerApplies(c, cmd) ==
    IF cmd.code = "ESetLocalNameCommand"
    THEN [ c EXCEPT !.name = cmd.param[1], !.shortName = cmd.param[2] ]
    ELSE IF cmd.param # 0
    THEN [ c EXCEPT !.masks = @ \cup { SettingOf(cmd.code) } ]
    ELSE [ c EXCEPT !.masks = @ \ { SettingOf(cmd.code) } ]

\* What can follow a command written to the HCI socket:
\*   complete: the controller carries it out and its Command Complete event
\*             is read within kMaxEventWaitTimeMS
\*   status:   the controller refuses it and its Command Status event, which
\*             carries the error, is read within kMaxEventWaitTimeMS
\*   late:     the controller carries it out, the event is read too late
\*   timeout:  the controller does nothing and no event is read
Responses == { "complete", "status", "late", "timeout" }

\* HciAdapter::runEventThread: ECommandCompleteEvent and ECommandStatusEvent
\* both end in setCommandResponse(event.commandCode), whatever the status
setCommandResponse(response) == response \in { "complete", "status" }

\* HciAdapter::sendCommand: fut.get(), the verdict of waitForCommandResponse
sendCommand(response) == setCommandResponse(response)

\* initializationStateProcessor reaches configureAdapter, which reads the
\* snapshot and either finds every flag set or starts with its first command
configureAdapter ==
    /\ mgmtStep = 0
    /\ serverRunState <= ERunning
    /\ retryTimeStart = 0
    /\ bluezGattManagerInterfaceName
    /\ ~bAdapterConfigured
    /\ sentCommands' = << >>
    /\ IF AllFlags(controllerInformation)
       THEN /\ bAdapterConfigured' = TRUE
            /\ mgmtStep' = 0
       ELSE /\ mgmtStep' = NextStep(0, controllerInformation)
            /\ UNCHANGED bAdapterConfigured
    /\ UNCHANGED << queueVars, runVars, ctlVars, thrVars, hostVars, pBusConnection,
                    bOwnedNameAcquired, pBluezObjectManager,
                    bluezGattManagerInterfaceName, registeredObjectIds,
                    bApplicationRegistered, nameVars, retryVars, loopVars, countVars,
                    hostCalls, serverDataTextString, serviceName, methodReply,
                    controller, controllerAtStart, controllerInformation,
                    adapterSettings, advertisingName, advertisingShortName, cmdVars, dbusVars,
                    busObjects >>

\* configureAdapter: one step: if (!mgmt.setX(...)) { setRetry(); return; }
\* and after the last one bAdapterConfigured = true
MgmtCommand(response) ==
    /\ mgmtStep \in MgmtSteps
    /\ response # "complete" => Len(failures) < MaxFailures
    /\ LET cmd == StepCommand(mgmtStep)
           applied == response \in { "complete", "late" }
       IN /\ sentCommands' = Append(sentCommands, cmd)
          /\ eventThread' = "running"
          /\ controller' = IF applied THEN ControllerApplies(controller, cmd) ELSE controller
          /\ adapterSettings' =
                IF applied /\ cmd.code # "ESetLocalNameCommand"
                THEN ControllerApplies(controller, cmd).masks
                ELSE adapterSettings
          /\ failures' = IF response = "complete" THEN failures ELSE Append(failures, response)
          /\ IF sendCommand(response)
             THEN /\ IF mgmtStep = 9
                     THEN /\ bAdapterConfigured' = TRUE
                          /\ mgmtStep' = 0
                     ELSE /\ mgmtStep' = NextStep(mgmtStep, controllerInformation)
                          /\ UNCHANGED bAdapterConfigured
                  /\ UNCHANGED retryVars
             ELSE /\ setRetry
                  /\ mgmtStep' = 0
                  /\ UNCHANGED bAdapterConfigured
    /\ UNCHANGED << queueVars, runVars, ctlVars, serverThread, hostVars, pBusConnection,
                    bOwnedNameAcquired, pBluezObjectManager,
                    bluezGattManagerInterfaceName, registeredObjectIds,
                    bApplicationRegistered, nameVars, loopVars, quitCalls, joinCalls,
                    hostCalls, serverDataTextString, serviceName, methodReply,
                    controllerAtStart, controllerInformation, advertisingName,
                    advertisingShortName, cmdVars, dbusVars, busObjects >>

\* onPeriodicTimer with an expired retry: retryTimeStart = 0, after which the
\* state processor runs again
PeriodicTimerClearsRetry ==
    /\ mgmtStep = 0
    /\ serverRunState <= ERunning
    /\ retryTimeStart # 0 /\ RetryExpired
    /\ retryTimeStart' = 0
    /\ retryElapsed' = 0
    /\ UNCHANGED << queueVars, runVars, ctlVars, thrVars, hostVars, initVars, nameVars,
                    loopVars, countVars, hostCalls, dataVars >>

\* ------------------------------------------------------------------------
\* HciAdapter: sendCommand, waitForCommandResponse and the event thread
\* (HciAdapter.cpp, HciAdapter.h)
\* ------------------------------------------------------------------------

\* The command codes sendCommand is called with
CommandCodes == { "ESetPoweredCommand", "ESetLowEnergyCommand" }

\* Number of sendCommand calls followed
MaxCommands == 2

\* Number of events the controller sends that answer no command
MaxUnsolicited == 2

\* The caller of sendCommand between two calls
IdleCall ==
    [ pc |-> "idle", id |-> 0, code |-> "none", written |-> FALSE, seen |-> FALSE,
      by |-> 0 ]

\* No std::async task
NoWaiter == [ pc |-> "none", notified |-> FALSE, success |-> FALSE ]

\* runEventThread inside hciSocket.read
ReadingEvents == [ pc |-> "read", code |-> "none", for |-> 0 ]

\* HciAdapter() : commandResponseLock(commandResponseMutex), activeConnections(0):
\* the unique_lock member takes the mutex when the adapter is constructed
\* and gives it up only inside wait_for; conditionalValue has no initializer
\* and is assigned by sendCommand before it is read
CommandInit ==
    /\ conditionalValue = "-1"
    /\ commandResponseMutex = "locked"
    /\ activeConnections = 0
    /\ sendCommandCall = IdleCall
    /\ waiter = NoWaiter
    /\ eventLoop = ReadingEvents
    /\ hciSocketEvents = {}
    /\ controllerCommands = {}
    /\ commandResults = << >>
    /\ nUnsolicited = 0

\* hciSocket.isConnected(): start connects the socket, runEventThread
\* disconnects it below its loop; a return from inside the loop leaves it
\* connected
SocketConnected ==
    \/ eventThread = "running"
    \/ eventThread \in { "finished", "joined" } /\ eventLoop.pc = "returned"

\* What the lifecycle variables and the adapter's data do during a step of
\* the command protocol
CommandFrame ==
    UNCHANGED << queueVars, runVars, ctlVars, serverThread, hostVars, initVars, nameVars,
                 retryVars, loopVars, countVars, hostCalls, serverDataTextString,
                 serviceName, methodReply, controller, controllerAtStart,
                 controllerInformation, advertisingName, advertisingShortName,
                 sentCommands, mgmtStep, busObjects, dbusVars >>

\* sendCommand up to the std::async call: start the event thread unless the
\* thread object is joinable, conditionalValue = -1, launch the task that
\* runs waitForCommandResponse(request.code, kMaxEventWaitTimeMS)
SendCommandStart(code) ==
    /\ sendCommandCall.pc = "idle"
    /\ Len(commandResults) < MaxCommands
    /\ IF Joinable(eventThread)
       THEN UNCHANGED << eventThread, eventLoop >>
       ELSE eventThread' = "running" /\ eventLoop' = ReadingEvents
    /\ conditionalValue' = "-1"
    /\ waiter' = [ pc |-> "start", notified |-> FALSE, success |-> FALSE ]
    /\ sendCommandCall' =
          [ IdleCall EXCEPT !.pc = "write", !.id = Len(commandResults) + 1, !.code = code ]
    /\ CommandFrame
    /\ UNCHANGED << commandResponseMutex, activeConnections, hciSocketEvents,
                    controllerCommands, commandResults, nUnsolicited, adapterSettings >>

\* sendCommand: hciSocket.write(requestPacket)
SendCommandWrite ==
    /\ sendCommandCall.pc = "write"
    /\ IF SocketConnected
       THEN /\ controllerCommands' = controllerCommands \cup
                  { [ id |-> sendCommandCall.id, code |-> sendCommandCall.code ] }
            /\ sendCommandCall' = [ sendCommandCall EXCEPT !.pc = "get", !.written = TRUE ]
       ELSE /\ sendCommandCall' = [ sendCommandCall EXCEPT !.pc = "get" ]
            /\ UNCHANGED controllerCommands
    /\ CommandFrame
    /\ UNCHANGED << eventThread, conditionalValue, commandResponseMutex,
                    activeConnections, waiter, eventLoop, hciSocketEvents,
                    commandResults, nUnsolicited, adapterSettings >>

\* sendCommand: return fut.get(), or return false after a failed write, where
\* the future's destructor waits for the task as well
SendCommandReturn ==
    /\ sendCommandCall.pc = "get"
    /\ waiter.pc = "done"
    /\ commandResults' =
          Append(commandResults,
                 [ id |-> sendCommandCall.id, code |-> sendCommandCall.code,
                   success |-> sendCommandCall.written /\ waiter.success,
                   seen |-> sendCommandCall.seen, by |-> sendCommandCall.by ])
    /\ sendCommandCall' = IdleCall
    /\ waiter' = NoWaiter
    /\ CommandFrame
    /\ UNCHANGED << eventThread, conditionalValue, commandResponseMutex,
                    activeConnections, eventLoop, hciSocketEvents, controllerCommands,
                    nUnsolicited, adapterSettings >>

\* The predicate of cvCommandResponse.wait_for
ResponseSeen == conditionalValue = sendCommandCall.code

\* waitForCommandResponse enters wait_for(commandResponseLock, timeout, pred):
\* with the predicate false it releases the mutex and waits
WaiterStart ==
    /\ waiter.pc = "start"
    /\ IF ResponseSeen
       THEN /\ waiter' = [ waiter EXCEPT !.pc = "done", !.success = TRUE ]
            /\ UNCHANGED commandResponseMutex
       ELSE /\ waiter' = [ waiter EXCEPT !.pc = "waiting" ]
            /\ commandResponseMutex' = "unlocked"
    /\ CommandFrame
    /\ UNCHANGED << eventThread, conditionalValue, activeConnections, sendCommandCall,
                    eventLoop, hciSocketEvents, controllerCommands, commandResults,
                    nUnsolicited, adapterSettings >>

\* wait_for wakes up on notify_one: it takes the mutex again and returns true
\* when the predicate holds, otherwise it releases the mutex and waits on
WaiterWake ==
    /\ waiter.pc = "waiting"
    /\ waiter.notified
    /\ commandResponseMutex = "unlocked"
    /\ IF ResponseSeen
       THEN /\ waiter' = [ waiter EXCEPT !.pc = "done", !.success = TRUE ]
            /\ commandResponseMutex' = "locked"
       ELSE /\ waiter' = [ waiter EXCEPT !.notified = FALSE ]
            /\ UNCHANGED commandResponseMutex
    /\ CommandFrame
    /\ UNCHANGED << eventThread, conditionalValue, activeConnections, sendCommandCall,
                    eventLoop, hciSocketEvents, controllerCommands, commandResults,
                    nUnsolicited, adapterSettings >>

\* wait_for after kMaxEventWaitTimeMS: it takes the mutex again and returns
\* what the predicate says
WaiterTimeout ==
    /\ waiter.pc = "waiting"
    /\ commandResponseMutex = "unlocked"
    /\ waiter' = [ waiter EXCEPT !.pc = "done", !.success = ResponseSeen ]
    /\ commandResponseMutex' = "locked"
    /\ CommandFrame
    /\ UNCHANGED << eventThread, conditionalValue, activeConnections, sendCommandCall,
                    eventLoop, hciSocketEvents, controllerCommands, commandResults,
                    nUnsolicited, adapterSettings >>

\* The events the controller sends in answer to a command: Command Complete
\* with status Success after carrying it out, Command Status with an error
\* status after refusing it
AnswerTypes == { "ECommandCompleteEvent", "ECommandStatusEvent" }

AnswerTo(c, type) ==
    [ type |-> type, code |-> c.code,
      status |-> IF type = "ECommandCompleteEvent" THEN "Success" ELSE "Failed",
      dataLen |-> "AdapterSettings", for |-> c.id ]

\* Events that answer no command: too short for an event code, an event
\* code above kMaxEventType, a Command Complete whose payload is not an
\* AdapterSettings, and the two connection events
UnsolicitedEvents ==
    { [ type |-> t, code |-> "none", status |-> "none", dataLen |-> "none", for |-> 0 ] :
        t \in { "TooShort", "OutOfRange", "EDeviceConnectedEvent",
                "EDeviceDisconnectedEvent" } }
    \cup
    { [ type |-> "ECommandCompleteEvent", code |-> c, status |-> "Success",
        dataLen |-> "other", for |-> 0 ] : c \in CommandCodes }

\* Every sendCommand call's command, and every event
Commands == [ id : 1..MaxCommands, code : CommandCodes ]
Events == UnsolicitedEvents \cup { AnswerTo(c, type) : c \in Commands, type \in AnswerTypes }

\* The controller answers a command it was sent, at a time of its choosing
ControllerAnswers(c, type) ==
    /\ c \in controllerCommands
    /\ controllerCommands' = controllerCommands \ { c }
    /\ hciSocketEvents' = hciSocketEvents \cup { AnswerTo(c, type) }
    /\ CommandFrame
    /\ UNCHANGED << eventThread, conditionalValue, commandResponseMutex,
                    activeConnections, sendCommandCall, waiter, eventLoop,
                    commandResults, nUnsolicited, adapterSettings >>

\* The controller sends an event of its own
ControllerSends(e) ==
    /\ nUnsolicited < MaxUnsolicited
    /\ e \notin hciSocketEvents
    /\ SocketConnected
    /\ nUnsolicited' = nUnsolicited + 1
    /\ hciSocketEvents' = hciSocketEvents \cup { e }
    /\ CommandFrame
    /\ UNCHANGED << eventThread, conditionalValue, commandResponseMutex,
                    activeConnections, sendCommandCall, waiter, eventLoop,
                    controllerCommands, commandResults, adapterSettings >>

\* runEventThread: one turn of the loop up to the call of setCommandResponse.
\* Too short and out of range: continue. A Command Complete whose payload
\* has the wrong size: return. Otherwise the completion's payload goes into
\* adapterSettings, the connection events move activeConnections
EventRead(e) ==
    /\ eventThread = "running"
    /\ eventLoop.pc = "read"
    /\ serverRunState <= ERunning
    /\ e \in hciSocketEvents
    /\ hciSocketEvents' = hciSocketEvents \ { e }
    /\ CASE e.type \in { "TooShort", "OutOfRange" } ->
              UNCHANGED << eventThread, eventLoop, adapterSettings, activeConnections >>
         [] e.type = "ECommandCompleteEvent" /\ e.dataLen # "AdapterSettings" ->
              /\ eventThread' = "finished"
              /\ eventLoop' = [ eventLoop EXCEPT !.pc = "returned" ]
              /\ UNCHANGED << adapterSettings, activeConnections >>
         [] e.type = "ECommandCompleteEvent" /\ e.dataLen = "AdapterSettings" ->
              /\ adapterSettings' = controller.masks \cup { SettingOf(e.code) }
              /\ eventLoop' = [ pc |-> "setCommandResponse", code |-> e.code, for |-> e.for ]
              /\ UNCHANGED << eventThread, activeConnections >>
         [] e.type = "ECommandStatusEvent" ->
              /\ eventLoop' = [ pc |-> "setCommandResponse", code |-> e.code, for |-> e.for ]
              /\ UNCHANGED << eventThread, adapterSettings, activeConnections >>
         [] e.type = "EDeviceConnectedEvent" ->
              /\ activeConnections' = activeConnections + 1
              /\ UNCHANGED << eventThread, eventLoop, adapterSettings >>
         [] e.type = "EDeviceDisconnectedEvent" ->
              /\ activeConnections' =
                    IF activeConnections > 0 THEN activeConnections - 1 ELSE activeConnections
              /\ UNCHANGED << eventThread, eventLoop, adapterSettings >>
    /\ CommandFrame
    /\ UNCHANGED << conditionalValue, commandResponseMutex, sendCommandCall, waiter,
                    controllerCommands, commandResults, nUnsolicited >>

\* setCommandResponse(commandCode): lock_guard on commandResponseMutex, which
\* is free only while a waiter is inside wait_for; conditionalValue =
\* commandCode; notify_one. The call's record keeps whether its own code was
\* stored while it waited, and which command the stored event answers
EventSetCommandResponse ==
    /\ eventThread = "running"
    /\ eventLoop.pc = "setCommandResponse"
    /\ commandResponseMutex = "unlocked"
    /\ conditionalValue' = eventLoop.code
    /\ waiter' = [ waiter EXCEPT !.notified = (waiter.pc = "waiting") ]
    /\ sendCommandCall' =
          [ sendCommandCall EXCEPT
              !.seen = @ \/ eventLoop.code = sendCommandCall.code,
              !.by = eventLoop.for ]
    /\ eventLoop' = ReadingEvents
    /\ CommandFrame
    /\ UNCHANGED << eventThread, commandResponseMutex, activeConnections,
                    hciSocketEvents, controllerCommands, commandResults, nUnsolicited,
                    adapterSettings >>

\* The controller and the adapter before ggkStart
HciInit ==
    /\ controller = [ masks |-> {}, name |-> << >>, shortName |-> << >> ]
    /\ controllerAtStart = controller
    /\ controllerInformation = ZeroControllerInformation
    /\ adapterSettings = {}
    /\ advertisingName = << >>
    /\ advertisingShortName = << >>
    /\ sentCommands = << >>
    /\ mgmtStep = 0
    /\ CommandInit

\* ------------------------------------------------------------------------
\* Specifications
\* ------------------------------------------------------------------------

\* The asynchronous operations the state processor starts
AsyncOps == { "bus", "name", "objmgr", "regapp" }

LifeInit ==
    /\ serverRunState = EUninitialized
    /\ serverHealth = EOk
    /\ wasRunning = FALSE
    /\ pc = [ t \in Threads |->
                IF t = "host" THEN "ggkStart" ELSE IF t = "ext" THEN "idle" ELSE "none" ]
    /\ stack = [ t \in Threads |-> << >> ]
    /\ serverThread = "none"
    /\ eventThread = "none"
    /\ retryTimeMS = 0
    /\ startResult = -1
    /\ waitResult = -1
    /\ startWait = "polling"
    /\ shutdownAndWait = "no"
    /\ pBusConnection = FALSE
    /\ bOwnedNameAcquired = FALSE
    /\ pBluezObjectManager = FALSE
    /\ bluezGattManagerInterfaceName = FALSE
    /\ bAdapterConfigured = FALSE
    /\ registeredObjectIds = {}
    /\ busObjects = {}
    /\ bApplicationRegistered = FALSE
    /\ ownedNameId = 0
    /\ periodicTimeoutId = 0
    /\ timers = {}
    /\ retryTimeStart = 0
    /\ retryElapsed = 0
    /\ pMainLoop = FALSE
    /\ mainLoopRefs = 0
    /\ mainLoopRunning = FALSE
    /\ pending = [ op \in AsyncOps |-> 0 ]
    /\ failures = << >>
    /\ quitCalls = 0
    /\ joinCalls = 0
    /\ hostCalls = << >>
    /\ serverDataTextString = kDefaultTextString
    /\ serviceName = << >>
    /\ methodReply = << >>
    /\ HciInit

Init == QueueInit /\ LifeInit /\ DBusInit

\* A step of shutdown() by thread t
Shutdown(t) ==
    \/ ShutdownCheck(t)
    \/ ShutdownSetStopping(t)
    \/ HciAdapterStop(t)
    \/ HciAdapterJoin(t)
    \/ MainLoopQuit(t)

\* A step of the host thread inside the embedding API
HostStep ==
    \/ StartSpawn
    \/ StartPoll
    \/ StartTimeout
    \/ StartCheck
    \/ StartWait
    \/ HostWait
    \/ HostShutdownAndWait
    \/ Wait
    \/ Shutdown("host")

\* The host notifies the server of a changed value
Notify ==
    \/ \E p \in ObjectPaths : ggkNofifyUpdatedCharacteristic(p)
    \/ \E p \in ObjectPaths : ggkNofifyUpdatedDescriptor(p)

\* The notifications of the host next to everything else that can happen
HostNotify == Len(pushLog) < MaxNotifies /\ Notify

\* A step of the thread that calls ggkTriggerShutdown
ExtStep ==
    \/ TriggerShutdown
    \/ Shutdown("ext")

\* A step of the initialization state processor
StateProcessor ==
    \/ IspReturn
    \/ IspEnter
    \/ IspBusAcquire
    \/ IspOwnedNameAcquire
    \/ IspGetBluezObjectManager
    \/ IspFindAdapterInterface
    \/ IspConfigureAdapter
    \/ ConfigureAdapterSend
    \/ ConfigureAdapterDone
    \/ ConfigureAdapterTimesOut
    \/ IspRegisterObjects
    \/ IspRegisterApplication
    \/ IspUnhealthy
    \/ IspHealthy
    \/ IspSetRunning

\* A callback dispatched by the main loop is entered
MainLoopDispatch ==
    \/ BusAcquired
    \/ NameAcquired
    \/ ObjectManagerAcquired
    \/ ApplicationRegistered
    \/ \E id \in timers : PeriodicTimerStops(id)
    \/ \E id \in timers : PeriodicTimer(id)
    \/ MethodCall
    \/ IdleFunc

\* A step of the server thread
ServerStep ==
    \/ RunServerThread
    \/ StateProcessor
    \/ MainLoopNew
    \/ MainLoopRun
    \/ MainLoopDispatch
    \/ \E due \in BOOLEAN : TickEvents(due)
    \/ IdlePop
    \/ Shutdown("server")
    \/ MainLoopExit
    \/ ServerStopped
    \/ Uninit

\* An operation of the environment fails
Failure ==
    \/ StartSpawnFails
    \/ EventThreadSocketError
    \/ BusAcquireFails
    \/ NameLost
    \/ ObjectManagerFails
    \/ IspFindAdapterInterfaceFails
    \/ ConfigureAdapterFails
    \/ IspRegisterObjectsFails
    \/ RegisterApplicationFails

\* The retry after a failure
Retry ==
    \/ ClockTick
    \/ \E id \in timers : PeriodicTimerRetry(id)

\* The server, its host and one other thread that triggers a shutdown, with
\* nothing failing
LifeNext ==
    \/ HostStep
    \/ ExtStep
    \/ EventThreadShutdown
    \/ ServerStep

Next ==
    \/ LifeNext
    \/ HostNotify
    \/ Failure
    \/ Retry

\* The server, its host and its environment
Spec == Init /\ [][Next]_vars

\* Every thread that can take a step eventually takes one, and so does the
\* main loop's idle source
Fairness ==
    /\ WF_vars(HostStep)
    /\ WF_vars(ExtStep)
    /\ WF_vars(EventThreadShutdown)
    /\ WF_vars(ServerStep)
    /\ WF_vars(MainLoopExit)

\* The server when nothing fails, under fair scheduling
FairSpec == Init /\ [][LifeNext]_vars /\ Fairness

\* The server and a host that starts it, notifies it of up to MaxPushes
\* changed values and may wait for it or shut it down, with nothing failing
DrainNext ==
    \/ HostStep
    \/ EventThreadShutdown
    \/ ServerStep
    \/ Notify

\* The server thread takes a step whenever it can, and the main loop runs
\* its idle source again and again: the idle source is the only one of
\* priority G_PRIORITY_DEFAULT_IDLE, it is never removed (the lambda around
\* idleFunc always returns TRUE), and the other sources are not always ready
DrainFairness ==
    /\ WF_vars(ServerStep)
    /\ SF_vars(IdleFunc)
    /\ WF_vars(IdlePop)

SpecDrain == Init /\ [][DrainNext]_vars /\ DrainFairness

\* A remote client reads or writes the text characteristic
TextMethodCall ==
    \/ \E pAyBuffer \in WrittenValues : TextWriteValue(pAyBuffer)
    \/ TextReadValue

\* The server, a host that starts it and notifies it, and a remote client of
\* the text characteristic, with nothing failing
TextNext ==
    \/ HostStep
    \/ EventThreadShutdown
    \/ ServerStep
    \/ HostNotify
    \/ TextMethodCall

SpecText == Init /\ [][TextNext]_vars

\* The server and its host when nothing but g_bus_get fails
BusNext ==
    \/ HostStep
    \/ EventThreadShutdown
    \/ ServerStep
    \/ BusAcquireFails

\* The host and the server thread take a step whenever they can
FairSpecBus ==
    /\ Init /\ [][BusNext]_vars
    /\ WF_vars(HostStep)
    /\ WF_vars(EventThreadShutdown)
    /\ WF_vars(ServerStep)
    /\ WF_vars(MainLoopExit)

\* A remote client calls a method the server description does not have
MethodCallNotFound ==
    \E pObjectPath \in ObjectPaths, pInterfaceName \in InterfaceNames,
       pMethodName \in MethodNames :
        MethodNotFound(pObjectPath, pInterfaceName, pMethodName)

\* The server started under any of the service names, its host and a remote
\* client that calls methods the server does not have, with nothing failing
NamesNext ==
    \/ \E pServiceName \in ServiceNames : StartSpawnNamed(pServiceName)
    \/ HostStep
    \/ EventThreadShutdown
    \/ ServerStep
    \/ MethodCallNotFound

SpecNames == Init /\ [][NamesNext]_vars

\* The server thread has found the adapter's GattManager1 interface and the
\* state processor is about to call configureAdapter; the controller is in
\* any state, its snapshot was never read or holds what the controller reports
AdapterInit ==
    /\ QueueInit
    /\ serverRunState = EInitializing
    /\ serverHealth = EOk
    /\ wasRunning = FALSE
    /\ pc = [ t \in Threads |->
                IF t = "host" THEN "start_poll"
                ELSE IF t = "ext" THEN "idle" ELSE "configureAdapter" ]
    /\ stack = [ t \in Threads |-> IF t = "server" THEN << "loop" >> ELSE << >> ]
    /\ serverThread = "running"
    /\ eventThread = "none"
    /\ retryTimeMS = 0
    /\ startResult = -1
    /\ waitResult = -1
    /\ startWait = "polling"
    /\ shutdownAndWait = "no"
    /\ pBusConnection = TRUE
    /\ bOwnedNameAcquired = TRUE
    /\ pBluezObjectManager = TRUE
    /\ bluezGattManagerInterfaceName = TRUE
    /\ bAdapterConfigured = FALSE
    /\ registeredObjectIds = {}
    /\ busObjects = {}
    /\ DBusInit
    /\ bApplicationRegistered = FALSE
    /\ ownedNameId = 1
    /\ periodicTimeoutId = 1
    /\ timers = { 1 }
    /\ retryTimeStart = 0
    /\ retryElapsed = 0
    /\ pMainLoop = TRUE
    /\ mainLoopRefs = 1
    /\ mainLoopRunning = TRUE
    /\ pending = [ op \in AsyncOps |-> 0 ]
    /\ failures = << >>
    /\ quitCalls = 0
    /\ joinCalls = 0
    /\ hostCalls = << >>
    /\ serverDataTextString = kDefaultTextString
    /\ serviceName = ServerServiceName(kServerName)
    /\ methodReply = << >>
    /\ controller \in ControllerStates
    /\ controllerAtStart = controller
    /\ controllerInformation \in
          { ZeroControllerInformation, ReadControllerInformation(controller) }
    /\ adapterSettings = {}
    /\ advertisingName \in AdvertisingNames
    /\ advertisingShortName \in AdvertisingShortNames
    /\ sentCommands = << >>
    /\ mgmtStep = 0
    /\ CommandInit

\* Adapter configuration on its own: the passes of configureAdapter, the
\* controller's answers and the retry timer
AdapterNext ==
    \/ configureAdapter
    \/ \E response \in Responses : MgmtCommand(response)
    \/ ClockTick
    \/ PeriodicTimerClearsRetry

SpecAdapter == AdapterInit /\ [][AdapterNext]_vars

\* The adapter while the server thread is inside configureAdapter: nothing
\* was sent yet and the event thread was never started
CommandSpecInit ==
    /\ AdapterInit
    /\ controller = [ masks |-> {}, name |-> << >>, shortName |-> << >> ]
    /\ controllerInformation = ZeroControllerInformation
    /\ advertisingName = << >>
    /\ advertisingShortName = << >>

\* The command protocol on its own: the calls of sendCommand, their waiters,
\* the event thread, the controller, and a shutdown from another thread
CommandNext ==
    \/ \E code \in CommandCodes : SendCommandStart(code)
    \/ SendCommandWrite
    \/ SendCommandReturn
    \/ WaiterStart
    \/ WaiterWake
    \/ WaiterTimeout
    \/ \E c \in Commands, type \in AnswerTypes : ControllerAnswers(c, type)
    \/ \E e \in UnsolicitedEvents : ControllerSends(e)
    \/ \E e \in Events : EventRead(e)
    \/ EventSetCommandResponse
    \/ EventThreadShutdown
    \/ ExtStep

SpecCommand == CommandSpecInit /\ [][CommandNext]_vars

\* A step of initialization fails in a way that schedules a retry
RetryFailure ==
    \/ NameLost
    \/ ObjectManagerFails
    \/ IspFindAdapterInterfaceFails
    \/ ConfigureAdapterFails
    \/ IspRegisterObjectsFails
    \/ RegisterApplicationFails

\* The server and its host, with initialization steps that fail and are
\* retried
RetryNext ==
    \/ HostStep
    \/ EventThreadShutdown
    \/ ServerStep
    \/ RetryFailure
    \/ Retry

\* The server thread takes a step whenever it can, time passes, and the main
\* loop dispatches its timer source whenever the timer is due: the timer has
\* a higher priority than the idle source and is dispatched between the
\* callbacks of the other sources
RetryFairness ==
    /\ WF_vars(ServerStep)
    /\ WF_vars(ClockTick)
    /\ SF_vars(\E id \in timers : PeriodicTimerRetry(id))

FairSpecRetry == Init /\ [][RetryNext]_vars /\ RetryFairness

\* The update queue API on its own
QueueOnlyNext == QueueNext /\ UNCHANGED lifeVars

SpecQueue == Init /\ [][QueueOnlyNext]_vars

\* ------------------------------------------------------------------------
\* Properties of the update queue
\* ------------------------------------------------------------------------

\* The queue's entries, oldest first
OldestFirst(q) == [ k \in 1..Len(q) |-> q[Len(q) + 1 - k] ]

\* C9: the update queue is a FIFO. Whenever a removing pop is given a buffer
\* that is large enough, it returns 0 exactly when every entry pushed so far
\* has been popped, it never returns -1, and the k-th pop that succeeds copies
\* "<path>|<interface>" of the k-th push to the caller's buffer.
C9_Fifo ==
    [][ PopUpdateQueue(kQueueEntryLen, 0) =>
          /\ call'.ret \in { 0, 1 }
          /\ call'.ret = 0 <=> nPopped = Len(pushLog)
          /\ call'.ret = 1 =>
                /\ nPopped' = nPopped + 1
                /\ elementBuffer' = pushLog[nPopped'][1] \o << "|" >> \o pushLog[nPopped'][2]
      ]_vars

\* C9 witness: the second removing pop has returned the second of three
\* pushed entries, which differs from the first
C9_Witness ==
    /\ call = [ op |-> "pop", ret |-> 1, elementLen |-> kQueueEntryLen, keep |-> 0 ]
    /\ nPopped = 2
    /\ Len(pushLog) = 3
    /\ pushLog[1] # pushLog[2]
    /\ elementBuffer = EntryString(pushLog[2])

\* C10: a pop that is a peek, that finds the queue empty (0) or whose buffer
\* cannot hold the entry and its terminator (-1) leaves the queue as it was;
\* a pop that succeeds with keep = 0 removes the oldest entry and nothing else.
C10_PopFrame ==
    [][ \A elementLen \in ElementLens, keep \in Keeps :
          PopUpdateQueue(elementLen, keep) =>
            IF call'.ret = 1 /\ keep = 0
            THEN /\ updateQueue # << >>
                 /\ Head(OldestFirst(updateQueue)) = pushLog[nPopped + 1]
                 /\ OldestFirst(updateQueue') = Tail(OldestFirst(updateQueue))
            ELSE /\ updateQueue' = updateQueue
                 /\ call'.ret = 0 <=> updateQueue = << >>
                 /\ call'.ret = -1 =>
                       elementLen < Len(EntryString(pushLog[nPopped + 1])) + 1
      ]_vars

\* C10 witness: with two different entries queued, a pop whose buffer is one
\* byte short has returned -1 and both entries are still there, in order
C10_Witness ==
    /\ call.op = "pop" /\ call.ret = -1 /\ call.elementLen = 28 /\ call.keep = 0
    /\ nPopped = 1
    /\ Len(pushLog) = 3
    /\ pushLog[2] # pushLog[3]
    /\ OldestFirst(updateQueue) = << pushLog[2], pushLog[3] >>

\* ------------------------------------------------------------------------
\* Properties of the server's life
\* ------------------------------------------------------------------------

\* C1: the run state never decreases; two successive reads see
\* Uninitialized <= Initializing <= Running <= Stopping <= Stopped.
C1_RunStateNeverDecreases == [][ serverRunState' >= serverRunState ]_vars

\* C2: once ggkTriggerShutdown has been called after the server thread was
\* spawned, the run state eventually is Stopped and the host's ggkWait has
\* returned.
C2_ShutdownCompletes ==
    (pc["ext"] # "idle") ~> (serverRunState = EStopped /\ waitResult = 1)

\* C3: with no other thread triggering a shutdown, ggkStart returns non-zero
\* if and only if the run state had become Running when ggkStart stopped
\* waiting; when it returns non-zero the server is running, and when it
\* returns 0 the server thread has stopped and the run state is Stopped.
C3_StartResult ==
    [][ (startResult = -1 /\ startResult' # -1 /\ pc["ext"] = "idle") =>
          /\ startResult' # 0 <=> startWait = "running"
          /\ startResult' # 0 => serverRunState' = ERunning
          /\ startResult' = 0 =>
                serverRunState' = EStopped /\ serverThread' # "running"
      ]_vars

C5_NoHostCallAfterWait == [][ waitResult # -1 => hostCalls' = hostCalls ]_vars

\* C5 witness: the wait has returned after the on-updated hook had run, and
\* the run is over for every thread
C5_Witness ==
    /\ waitResult = 1
    /\ \E k \in 1..Len(hostCalls) : hostCalls[k][1] = "onUpdatedValue"
    /\ pc["server"] = "done"
    /\ pc["ext"] = "returned"

\* C6: whenever the run state is Running the health is Ok.
C6_RunningIsHealthy == serverRunState = ERunning => serverHealth = EOk

\* C7: the run state is Running only when the application is registered;
\* a RegisterApplication that fails during initialization leaves the run
\* state at Initializing (the handler never writes the run state, so it
\* never advances it to Running) and schedules a retry.
C7_RunningIsRegistered ==
    /\ [](serverRunState = ERunning => bApplicationRegistered)
    /\ [][ RegisterApplicationFails =>
             /\ serverRunState' = serverRunState
             /\ serverRunState = EInitializing => serverRunState' = EInitializing
             /\ retryTimeStart' # 0
         ]_vars

\* C7 witness: RegisterApplication has failed: nothing of it is pending, the
\* application is not registered, a retry is scheduled and the run state is
\* Initializing
C7_Witness ==
    /\ serverRunState = EInitializing
    /\ ~bApplicationRegistered
    /\ pending["regapp"] = 0
    /\ registeredObjectIds # {}
    /\ bOwnedNameAcquired
    /\ retryTimeStart # 0
    /\ pc["server"] = "loop"

\* C8: ggkTriggerShutdown is idempotent: however many calls are made, and
\* whether or not they overlap, the event thread is joined at most once and
\* the main loop is asked to quit at most once.
C8_ShutdownOnce == joinCalls <= 1 /\ quitCalls <= 1

\* C11: the size of the queue is the number of pushes minus the number of
\* successful removing pops since the last clear: every push returns 1 and
\* adds one entry (equal entries are not coalesced), ggkUpdateQueueSize and
\* ggkUpdateQueueIsEmpty report that number, and after ggkUpdateQueueClear
\* the size is 0 and the queue is empty.
C11_Size ==
    /\ ggkUpdateQueueSize(updateQueue) = Len(pushLog) - nPopped
    /\ (ggkUpdateQueueIsEmpty(updateQueue) = 1) <=> (Len(pushLog) - nPopped = 0)
    /\ call.op = "push" => call.ret = 1
    /\ call.op = "size" => call.ret = Len(pushLog) - nPopped
    /\ call.op = "is_empty" => call.ret = (IF Len(pushLog) = nPopped THEN 1 ELSE 0)
    /\ call.op = "clear" =>
          ggkUpdateQueueSize(updateQueue) = 0 /\ ggkUpdateQueueIsEmpty(updateQueue) = 1

\* C11 witness: three equal entries were pushed with no pop in between and
\* the size just reported is three
C11_Witness ==
    /\ Len(pushLog) = 3
    /\ pushLog[1] = pushLog[2] /\ pushLog[2] = pushLog[3]
    /\ nPopped = 0
    /\ call.op = "size" /\ call.ret = 3

\* C12: the update queue is empty whenever the run state is Stopped; stated
\* at the step that stores Stopped, so that entries pushed before the server
\* was Running or while it was shutting down are the ones that count, and
\* not entries the host pushes at a server that has already stopped.
C12_StoppedQueueEmpty ==
    [][ serverRunState # EStopped /\ serverRunState' = EStopped => updateQueue' = << >> ]_vars

\* ------------------------------------------------------------------------
\* Properties of the idle drain
\* ------------------------------------------------------------------------

\* The entry was pushed by ggkNofifyUpdatedCharacteristic for a characteristic
\* of the server description
IsCharacteristicEntry(t) ==
    t[2] = kGattCharacteristicInterface /\ t[1] \in CharacteristicPaths

\* The object paths of the on-updated hooks invoked so far, in order
UpdatedHooks ==
    LET calls == SelectSeq(hostCalls, LAMBDA c : c[1] = "onUpdatedValue")
    IN  [ k \in 1..Len(calls) |-> calls[k][2] ]

\* The object paths of the characteristic entries drained so far, in the
\* order in which they were pushed
DrainedCharacteristics ==
    LET drained == SelectSeq(SubSeq(pushLog, 1, nPopped), IsCharacteristicEntry)
    IN  [ k \in 1..Len(drained) |-> drained[k][1] ]

IsDescriptorEntry(t) ==
    t[2] = kGattDescriptorInterface /\ t[1] \in DescriptorPaths

\* C14: a notification pushed by ggkNofifyUpdatedDescriptor with the path of
\* a descriptor triggers that descriptor's onUpdatedValue hook; stated for
\* the moment the idle drain has taken the entry off the queue, after which
\* nothing is left that could trigger the hook: by then the hook has run.
C14_DescriptorHook ==
    \A k \in 1..Len(pushLog) :
        (k <= nPopped /\ IsDescriptorEntry(pushLog[k]))
            => \E c \in 1..Len(hostCalls) :
                   hostCalls[c] = << "onUpdatedValue", pushLog[k][1] >>

\* ------------------------------------------------------------------------
\* Properties of the text characteristic
\* ------------------------------------------------------------------------

\* The bytes of a byte array in front of its first zero byte
RECURSIVE UpToZero(_)
UpToZero(bytes) ==
    IF bytes = << >> \/ Head(bytes) = Nul THEN << >>
    ELSE << Head(bytes) >> \o UpToZero(Tail(bytes))

\* This step is a WriteValue on the text characteristic
IsWriteValue ==
    /\ Len(hostCalls') > Len(hostCalls)
    /\ hostCalls'[Len(hostCalls) + 1][1] = "WriteValue"

\* The bytes this WriteValue step carries
WrittenBytes == hostCalls'[Len(hostCalls) + 1][2]

\* The bytes of the last WriteValue in front of call number i, the default
\* text when there is none
RECURSIVE LastWritten(_)
LastWritten(i) ==
    IF i <= 1 THEN kDefaultTextString
    ELSE IF hostCalls[i - 1][1] = "WriteValue" THEN hostCalls[i - 1][2]
    ELSE LastWritten(i - 1)

\* Number of WriteValue calls so far
NumWrites == Len(SelectSeq(hostCalls, LAMBDA c : c[1] = "WriteValue"))

BusFailed == \E i \in 1..Len(failures) : failures[i] = "BusAcquireFails"

\* This step is the completion of g_bus_get with a failure
IsBusFailure == ~BusFailed /\ BusFailed'

\* C16 as stated: when the system bus is unavailable at start and available
\* a few seconds later, initialization is retried (the failure schedules a
\* retry and leaves the health as it is), the server becomes Running and
\* ggkStart returns success.
C16_BusRetried ==
    /\ [][ IsBusFailure => retryTimeStart' # 0 /\ serverHealth' = serverHealth ]_vars
    /\ [](BusFailed /\ startResult # -1 => startResult = 1 /\ wasRunning)

\* C16 amended: when the system bus is unavailable at start the failure is
\* final, whether or not the bus becomes available later: no retry is
\* scheduled, g_bus_get is not called again, the health becomes FailedInit,
\* the run state never becomes Running and ggkStart does not return success.
C16_BusFailureIsFinal ==
    /\ [][ IsBusFailure => retryTimeStart' = 0 /\ serverHealth' = EFailedInit ]_vars
    /\ [](BusFailed =>
            /\ retryTimeStart = 0
            /\ pending["bus"] = 0 /\ ~pBusConnection
            /\ serverRunState # ERunning /\ ~wasRunning
            /\ startResult # 1)

\* C16 witness: g_bus_get failed, the server has stopped and ggkStart has
\* returned 0
C16_Witness ==
    /\ BusFailed
    /\ serverRunState = EStopped
    /\ startResult = 0

\* C17: when g_bus_get fails the health is set to FailedInit and shutdown is
\* triggered; no later initialization step is started and the server is
\* never Running; the server thread then stores Stopped and ends, and
\* ggkStart returns 0.
C17_BusFailureStops ==
    /\ [][ IsBusFailure => serverHealth' = EFailedInit /\ pc'["server"] = "shutdown" ]_vars
    /\ [](BusFailed =>
            /\ ~wasRunning
            /\ ownedNameId = 0 /\ pending = [ op \in AsyncOps |-> 0 ]
            /\ ~pBluezObjectManager /\ ~bAdapterConfigured /\ registeredObjectIds = {}
            /\ startResult # 1)
    /\ BusFailed ~> (serverThread \in { "finished", "joined" } /\ startResult = 0)

\* ------------------------------------------------------------------------
\* Properties of failures while running
\* ------------------------------------------------------------------------

\* This step is the HciAdapter event thread leaving its loop on a socket
\* error
IsSocketError ==
    /\ Len(failures') = Len(failures) + 1
    /\ failures'[Len(failures')] = "EventThreadSocketError"

\* C18: when an unrecoverable HCI socket error occurs after the server has
\* reached Running, the health is set to FailedRun (and shutdown is triggered).
C18_SocketErrorFailsRun ==
    [][ IsSocketError /\ serverRunState = ERunning => serverHealth' = EFailedRun ]_vars

\* ------------------------------------------------------------------------
\* Properties of method calls
\* ------------------------------------------------------------------------

\* C19: a method call for which no method is found is answered with the
\* error com.<service name in lower case>.NotImplemented, the owned name of
\* the server followed by .NotImplemented, whatever service name ggkStart
\* was given.
C19_NotImplementedName ==
    methodReply # << >> =>
        methodReply = << "error", getOwnedName \o NotImplementedSuffix >>

\* The place of a command in the order power off, LE, BR/EDR, secure
\* connections, bondable, connectable, advertising, names, power on
CommandRank(cmd) ==
    CASE cmd.code = "ESetPoweredCommand" -> IF cmd.param = 0 THEN 1 ELSE 9
      [] cmd.code = "ESetLowEnergyCommand" -> 2
      [] cmd.code = "ESetBREDRCommand" -> 3
      [] cmd.code = "ESetSecureConnectionsCommand" -> 4
      [] cmd.code = "ESetBondableCommand" -> 5
      [] cmd.code = "ESetConnectableCommand" -> 6
      [] cmd.code = "ESetAdvertisingCommand" -> 7
      [] cmd.code = "ESetLocalNameCommand" -> 8

\* No command was sent before one that precedes it in the order
SentInOrder ==
    \A i, j \in 1..Len(sentCommands) :
        i < j => CommandRank(sentCommands[i]) < CommandRank(sentCommands[j])

\* The snapshot holds what the controller reported before the first pass:
\* powered off, LE off, advertising off and empty names
ReportsCleanState ==
    /\ controllerInformation = ReadControllerInformation(controllerAtStart)
    /\ ~isSet(controllerInformation.currentSettings, EHciPowered)
    /\ ~isSet(controllerInformation.currentSettings, EHciLowEnergy)
    /\ ~isSet(controllerInformation.currentSettings, EHciAdvertising)
    /\ controllerInformation.name = << >>
    /\ controllerInformation.shortName = << >>

\* The settings the server wants: powered and LE on, the others as the
\* server's flags say
DesiredSettings ==
    { EHciPowered, EHciLowEnergy }
        \cup (IF getEnableBREDR THEN { EHciBasicRate_EnhancedDataRate } ELSE {})
        \cup (IF getEnableSecureConnection THEN { EHciSecureConnections } ELSE {})
        \cup (IF getEnableBondable THEN { EHciBondable } ELSE {})
        \cup (IF getEnableConnectable THEN { EHciConnectable } ELSE {})
        \cup (IF getEnableAdvertising THEN { EHciAdvertising } ELSE {})

\* The controller's settings and names are the desired ones
ControllerAsDesired ==
    /\ controller.masks = DesiredSettings
    /\ controller.name = truncateName(advertisingName)
    /\ controller.shortName = truncateShortName(advertisingShortName)

\* C20: starting from a controller that reports powered off, LE off,
\* advertising off and empty names, the commands of a reconciliation pass are
\* sent in the order power off, LE, BR/EDR, secure connections, bondable,
\* connectable, advertising, names, power on, and once the adapter is marked
\* configured the controller's state is the desired state.
C20_ReconcileFromCleanState ==
    ReportsCleanState =>
        /\ SentInOrder
        /\ bAdapterConfigured => ControllerAsDesired

\* The steps of initialization in the order of initializationStateProcessor
\* that are done
StepsDone ==
    << pBusConnection, bOwnedNameAcquired, pBluezObjectManager,
       bluezGattManagerInterfaceName, bAdapterConfigured,
       registeredObjectIds # {}, bApplicationRegistered >>

\* Step k is the first step that is not done
FirstUndone(k) ==
    /\ ~StepsDone[k]
    /\ \A j \in 1..(k - 1) : StepsDone[j]

\* No retry is pending and the run state has not passed Running
MayStart == retryTimeStart = 0 /\ serverRunState <= ERunning

\* C21: the operation of a step (bus connection, owned name, BlueZ object
\* manager, GATT-manager interface, adapter reconciliation, object
\* registration, application registration) is started only when it is the
\* first step not done, no retry is pending and the run state is <= Running.
C21_StepsInOrder ==
    [][ /\ IspBusAcquire => (FirstUndone(1) /\ MayStart)
        /\ IspOwnedNameAcquire => (FirstUndone(2) /\ MayStart)
        /\ IspGetBluezObjectManager => (FirstUndone(3) /\ MayStart)
        /\ (IspFindAdapterInterface \/ IspFindAdapterInterfaceFails)
              => (FirstUndone(4) /\ MayStart)
        /\ IspConfigureAdapter => (FirstUndone(5) /\ MayStart)
        /\ (IspRegisterObjects \/ IspRegisterObjectsFails) => (FirstUndone(6) /\ MayStart)
        /\ IspRegisterApplication => (FirstUndone(7) /\ MayStart) ]_vars

\* The periodic timer has cleared the retry and entered the state processor
RetryResumed ==
    /\ retryTimeStart = 0
    /\ pc["server"] = "isp"
    /\ stack["server"] = << "tickEvents", "loop" >>

\* C22: whenever a retry is scheduled while the run state is <= Running, the
\* periodic timer eventually clears it and enters the state processor again,
\* unless the run state passes Running first.
C22_RetryResumes ==
    (retryTimeStart # 0 /\ serverRunState <= ERunning)
        ~> (RetryResumed \/ serverRunState > ERunning)

\* The calls of sendCommand that have returned
ReturnedCalls == { commandResults[i] : i \in 1..Len(commandResults) }

\* runEventThread is inside setCommandResponse, waiting for the mutex
EventThreadWaitsForMutex ==
    /\ eventThread = "running"
    /\ eventLoop.pc = "setCommandResponse"
    /\ commandResponseMutex = "locked"

\* C23: after sendCommand has returned failure for want of a completion, the
\* event thread is not held up: it is never left waiting inside
\* setCommandResponse while no sendCommand call is in progress, so it goes on
\* to the next event and to the run state check that lets shutdown join it
C23_EventThreadUnaffected ==
    (/\ sendCommandCall.pc = "idle"
     /\ commandResults # << >>
     /\ ~commandResults[Len(commandResults)].success)
        => ~EventThreadWaitsForMutex

\* C24: a call of sendCommand during whose wait setCommandResponse stored the
\* call's own command code returns success
C24_NotificationNotLost ==
    \A r \in ReturnedCalls : r.seen => r.success

\* C29: a call of sendCommand returns success only on an event that answers
\* that very call
C29_OwnCompletionOnly ==
    \A r \in ReturnedCalls : r.success => r.by = r.id

\* An event runEventThread finds malformed: shorter than an event code, an
\* event code out of range, a payload of the wrong size for its type
Malformed(e) ==
    \/ e.type \in { "TooShort", "OutOfRange" }
    \/ e.type = "ECommandCompleteEvent" /\ e.dataLen # "AdapterSettings"

\* C25: reading a malformed event changes neither the controller snapshot
\* nor the connection counter, and leaves the event thread running in its
\* loop, ready for the next event
C25_MalformedEventDropped ==
    [][ \A e \in Events :
          (Malformed(e) /\ EventRead(e)) =>
              /\ UNCHANGED << controllerInformation, adapterSettings, activeConnections >>
              /\ eventThread' = "running"
              /\ eventLoop' = ReadingEvents ]_vars

\* C26: once a socket failure has ended the event thread, the next command
\* configureAdapter sends starts a new event thread
C26_RetryRestartsEventThread ==
    [][ (/\ ConfigureAdapterSend
         /\ eventThread = "finished"
         /\ \E i \in 1..Len(failures) : failures[i] = "EventThreadSocketError")
            => eventThread' = "running" ]_vars

\* The responses after which a command has failed: the controller refused
\* it, or no event for it was read in time
FailedResponses == { "status", "late", "timeout" }

\* C27: when a command of a pass of configureAdapter fails, the pass ends
\* there: no further command of the pass is sent, bAdapterConfigured stays
\* false, which keeps registerObjects and RegisterApplication from being
\* started, and a retry is pending
C27_FailedCommandEndsPass ==
    [][ \A response \in FailedResponses :
          MgmtCommand(response) =>
              /\ mgmtStep' = 0
              /\ ~bAdapterConfigured'
              /\ retryTimeStart' # 0 ]_vars

\* C30: a command the controller answers with an error status makes its step
\* of configureAdapter fail: the adapter is not marked configured and the
\* pass is given up for a retry
C30_RejectedCommandFails ==
    [][ MgmtCommand("status") =>
          /\ ~bAdapterConfigured'
          /\ mgmtStep' = 0
          /\ retryTimeStart' # 0 ]_vars

\* C28: a registration attempt in which an interface fails to register ends
\* with no registration id remembered and with the interfaces exported on
\* the connection as they were before it, and RegisterApplication is started
\* only with the whole tree registered
C28_FailedRegistrationUndone ==
    [][ /\ IspRegisterObjectsFails =>
              (registeredObjectIds' = {} /\ busObjects' = busObjects)
        /\ IspRegisterApplication =>
              (registeredObjectIds = ObjectIds /\ busObjects = ObjectIds) ]_vars

\* C31: the first command of a pass of configureAdapter that starts with the
\* controller powered on is Set Powered off
C31_PowerOffFirst ==
    [][ \A response \in Responses :
          (/\ MgmtCommand(response)
           /\ sentCommands = << >>
           /\ EHciPowered \in controller.masks)
              => StepCommand(mgmtStep) = [ code |-> "ESetPoweredCommand", param |-> 0 ] ]_vars

\* C32: when the completion of a settings command has been read, the
\* current-settings mask of the snapshot configureAdapter reads is the mask
\* the controller reported with it
C32_CompletionUpdatesSnapshot ==
    [][ (/\ MgmtCommand("complete")
         /\ StepCommand(mgmtStep).code # "ESetLocalNameCommand")
            => controllerInformation'.currentSettings = controller'.masks ]_vars

\* C33: the name-lost callback records the name as not acquired; with a
\* periodic timer it schedules a retry and leaves health and run state as
\* they are, without one it sets the health to EFailedInit and calls shutdown
C33_NameLostHandled ==
    [][ NameLost =>
          /\ ~bOwnedNameAcquired'
          /\ IF periodicTimeoutId # 0
             THEN /\ retryTimeStart' # 0
                  /\ UNCHANGED << serverHealth, serverRunState >>
             ELSE /\ serverHealth' = EFailedInit
                  /\ pc'["server"] = "shutdown" ]_vars

\* The name was lost before a periodic timer existed, and shutdown has set
\* the run state to EStopping
C33_Witness ==
    /\ failures # << >> /\ failures[1] = "NameLost"
    /\ periodicTimeoutId = 0
    /\ ~bOwnedNameAcquired
    /\ serverHealth = EFailedInit
    /\ serverRunState = EStopping

\* C34: at most one periodic timer source is attached to the main loop
C34_OnePeriodicTimer == Cardinality(timers) <= 1

\* C35: once uninit has returned, everything the server thread acquired has been
\* released: the bus connection, the object manager, every object registration,
\* every timer source and the main loop object
C35_EverythingReleased ==
    pc["server"] = "done" =>
        /\ ~pBusConnection
        /\ ~pBluezObjectManager
        /\ registeredObjectIds = {}
        /\ busObjects = {}
        /\ timers = {}
        /\ periodicTimeoutId = 0
        /\ mainLoopRefs = 0

\* The shortest object path whose characteristic entry does not fit the idle
\* drain's buffer: result.length() + 1 is kQueueEntryLen + 1
LongObjectPath ==
    [ i \in 1..(kQueueEntryLen - Len(kGattCharacteristicInterface) - 1) |->
        IF i = 1 THEN "/" ELSE "a" ]

\* The host notifies the server with an object path of that length
NotifyLong == ggkNofifyUpdatedCharacteristic(LongObjectPath)

\* The server and a host that starts it and notifies it, also with a path
\* too long for the idle drain, with nothing failing
LongEntryNext ==
    \/ DrainNext
    \/ NotifyLong

SpecLongEntry == Init /\ [][LongEntryNext]_vars /\ DrainFairness

\* The entry's text and its terminator fit the idle drain's buffer
FitsIdleBuffer(t) == Len(EntryString(t)) + 1 <= kQueueEntryLen

\* Number of entries among the first k pushed that fit the idle drain's buffer
FittingUpTo(k) ==
    Cardinality({ i \in 1..k : i <= Len(pushLog) /\ FitsIdleBuffer(pushLog[i]) })

\* The k-th entry pushed fits the idle drain's buffer, or does not
FitsAt(k) == k <= Len(pushLog) /\ FitsIdleBuffer(pushLog[k])
TooLongAt(k) == k <= Len(pushLog) /\ ~FitsIdleBuffer(pushLog[k])

\* C36: an entry that does not fit the idle drain's buffer does not block the
\* queue: while the server is Running, every fitting entry pushed after it is
\* eventually taken off the queue by the idle drain
C36_LongEntryNeverBlocks ==
    \A j, k \in 1..MaxPushes :
        (j < k /\ TooLongAt(j) /\ FitsAt(k))
            ~> (nPopped >= FittingUpTo(k) \/ serverRunState # ERunning)

\* Any server description, no request answered, the server as it is before
\* ggkStart
PropertyInit ==
    /\ QueueInit
    /\ LifeInit
    /\ properties \in [ GattInterfaceTypes -> PropertyLists ]
    /\ propertyReply = NoRequest
    /\ objects = << ObjectManagerRoot >>
    /\ managedObjects = NoReply
    /\ timerFirings = 0

\* A remote client gets or sets a property of an interface of the server
PropertyNext ==
    \/ \E t \in GattInterfaceTypes, n \in PropertyNames, r \in FuncResults :
         onGetProperty(t, n, r)
    \/ \E t \in GattInterfaceTypes, n \in PropertyNames, r \in FuncResults :
         onSetProperty(t, n, r)

SpecProperty == PropertyInit /\ [][PropertyNext]_vars

\* The interface of that type declares a property of that name
Declared(interfaceType, propertyName) ==
    \E i \in 1..Len(properties[interfaceType]) :
        properties[interfaceType][i].name = propertyName

\* The declared property of that name
DeclaredProperty(interfaceType, propertyName) ==
    LET i == CHOOSE i \in 1..Len(properties[interfaceType]) :
                 properties[interfaceType][i].name = propertyName
    IN  properties[interfaceType][i]

\* The request last answered was for a declared property with the getter or
\* setter the request needs
HasFunc(r) ==
    /\ Declared(r.interfaceType, r.propertyName)
    /\ IF r.op = "get"
       THEN DeclaredProperty(r.interfaceType, r.propertyName).getterFunc
       ELSE DeclaredProperty(r.interfaceType, r.propertyName).setterFunc

\* C37: a request for a declared property with the getter or setter it needs
\* invokes it; any other request is answered with G_IO_ERROR_FAILED and
\* invokes nothing
C37_PropertyRequest ==
    propertyReply.op # "none" =>
        IF HasFunc(propertyReply)
        THEN propertyReply.called
        ELSE ~propertyReply.called /\ propertyReply.reply = G_IO_ERROR_FAILED

\* The interfaces an object of a server description can carry: none, or one
\* GATT interface
InterfaceLists ==
    { << >> } \cup { << Interface(t, << >>) >> : t \in GattInterfaceTypes }

\* An interface has no properties or one property
ManagedPropertyLists ==
    { << >>, << [ name |-> "P", getterFunc |-> TRUE, setterFunc |-> TRUE ] >> }

\* Any hierarchy, published or not, next to the object manager's root; no
\* call answered, the server as it is before ggkStart
ManagedInit ==
    /\ QueueInit
    /\ LifeInit
    /\ properties \in [ GattInterfaceTypes -> ManagedPropertyLists ]
    /\ propertyReply = NoRequest
    /\ objects \in { << Hierarchy(publish, iRoot, iA, iB, iC), ObjectManagerRoot >> :
                       publish \in BOOLEAN, iRoot \in InterfaceLists,
                       iA \in InterfaceLists, iB \in InterfaceLists,
                       iC \in InterfaceLists }
    /\ managedObjects = NoReply
    /\ timerFirings = 0

SpecManaged == ManagedInit /\ [][GetManagedObjects]_vars

\* The objects of the tree below and including object, each with its path
RECURSIVE SubtreeNodes(_, _)
SubtreeNodes(object, basePath) ==
    LET path == basePath \o object.pathNode
    IN  { [ path |-> path, interfaces |-> object.interfaces ] }
        \cup UNION { SubtreeNodes(object.children[i], path) :
                       i \in 1..Len(object.children) }

\* The paths of the objects with an interface in the trees with a published root
PublishedPaths ==
    { n.path : n \in { m \in UNION { SubtreeNodes(objects[i], << >>) :
                                       i \in { j \in 1..Len(objects) : objects[j].publish } } :
                         m.interfaces # << >> } }

\* C38: the GetManagedObjects reply has one entry for each object with an
\* interface in a published tree, and no other entry
C38_ManagedObjects ==
    managedObjects.replied =>
        /\ { managedObjects.objectArray[k].path :
               k \in 1..Len(managedObjects.objectArray) } = PublishedPaths
        /\ \A j, k \in 1..Len(managedObjects.objectArray) :
             j # k => managedObjects.objectArray[j].path # managedObjects.objectArray[k].path

\* C38 witness: the reply to a published hierarchy whose root has no
\* interface and whose three other objects each have one
C38_Witness ==
    /\ managedObjects.replied
    /\ objects[1].publish
    /\ objects[1].interfaces = << >>
    /\ Len(managedObjects.objectArray) = 3
    /\ managedObjects.objectArray[1].path = << "com", "a" >>
    /\ managedObjects.objectArray[2].path = << "com", "a", "c" >>
    /\ managedObjects.objectArray[3].path = << "com", "b" >>

\* The tick events an interface can have, all with a callback
EventLists ==
    { << >> }
    \cup { << TickEvent(f, TRUE) >> : f \in 1..MaxFrequency }
    \cup { << TickEvent(1, TRUE), TickEvent(MaxFrequency, TRUE) >> }

\* A server in its main loop with the periodic timer attached and the
\* application not yet registered, its hierarchy published or not, with a
\* service "a", a characteristic "c" below it and a service "b"
TickInit ==
    /\ QueueInit
    /\ serverRunState = EInitializing
    /\ serverHealth = EOk
    /\ wasRunning = FALSE
    /\ pc = [ t \in Threads |->
                IF t = "host" THEN "start_poll" ELSE IF t = "ext" THEN "idle" ELSE "loop" ]
    /\ stack = [ t \in Threads |-> << >> ]
    /\ serverThread = "running"
    /\ eventThread = "none"
    /\ retryTimeMS = 0
    /\ startResult = -1
    /\ waitResult = -1
    /\ startWait = "polling"
    /\ shutdownAndWait = "no"
    /\ pBusConnection = TRUE
    /\ bOwnedNameAcquired = TRUE
    /\ pBluezObjectManager = TRUE
    /\ bluezGattManagerInterfaceName = TRUE
    /\ bAdapterConfigured = TRUE
    /\ registeredObjectIds = ObjectIds
    /\ busObjects = ObjectIds
    /\ bApplicationRegistered = FALSE
    /\ ownedNameId = 1
    /\ periodicTimeoutId = 1
    /\ timers = { 1 }
    /\ retryTimeStart = 0
    /\ retryElapsed = 0
    /\ pMainLoop = TRUE
    /\ mainLoopRefs = 1
    /\ mainLoopRunning = TRUE
    /\ pending = [ op \in AsyncOps |-> 0 ]
    /\ failures = << >>
    /\ quitCalls = 0
    /\ joinCalls = 0
    /\ hostCalls = << >>
    /\ serverDataTextString = kDefaultTextString
    /\ serviceName = ServerServiceName(kServerName)
    /\ methodReply = << >>
    /\ HciInit
    /\ properties = [ t \in GattInterfaceTypes |-> << >> ]
    /\ propertyReply = NoRequest
    /\ managedObjects = NoReply
    /\ timerFirings = 0
    /\ objects \in { << Hierarchy(publish, << >>,
                                  << Interface("GattService", eA) >>,
                                  << Interface("GattService", eB) >>,
                                  << Interface("GattCharacteristic", eC) >>),
                        ObjectManagerRoot >> :
                       publish \in BOOLEAN, eA \in EventLists, eB \in EventLists,
                       eC \in EventLists }

\* The periodic timer, the registration of the application and the run state
TickNext ==
    \/ \E id \in timers : onPeriodicTimer(id)
    \/ RegisterApplicationReply
    \/ \E newState \in { ERunning, EStopping, EStopped } : RunStateMoves(newState)

SpecTick == TickInit /\ [][TickNext]_vars

\* The tick events of the tree below and including object
RECURSIVE SubtreeEvents(_)
SubtreeEvents(object) ==
    UNION { { object.interfaces[i].events[k] :
                k \in 1..Len(object.interfaces[i].events) } :
              i \in 1..Len(object.interfaces) }
    \cup UNION { SubtreeEvents(object.children[i]) : i \in 1..Len(object.children) }

\* The tick events of the server description
AllEvents == UNION { SubtreeEvents(objects[i]) : i \in 1..Len(objects) }

\* C39: an event of frequency f >= 1 has fired once for every f ticks it has
\* received, its elapsed counter is the number of ticks since it last fired,
\* and 0 <= elapsed < f
C39_FiresEveryFthTick ==
    \A e \in AllEvents :
        e.tickFrequency >= 1 =>
            /\ e.fired = e.ticks \div e.tickFrequency
            /\ e.elapsedTicks = e.ticks % e.tickFrequency
            /\ 0 <= e.elapsedTicks /\ e.elapsedTicks < e.tickFrequency

\* C39 witness: an event of frequency 3 has received six ticks and fired
\* twice, next to an event of frequency 1 that fired on each of its six ticks
C39_Witness ==
    /\ \E e \in AllEvents :
          e.tickFrequency = 3 /\ e.ticks = 6 /\ e.fired = 2 /\ e.elapsedTicks = 0
    /\ \E e \in AllEvents :
          e.tickFrequency = 1 /\ e.ticks = 6 /\ e.fired = 6

\* Every tick event of the tree below and including old has received n more
\* ticks in new, and the tree has kept its shape
RECURSIVE TickedBy(_, _, _)
TickedBy(old, new, n) ==
    /\ Len(new.interfaces) = Len(old.interfaces)
    /\ \A i \in 1..Len(old.interfaces) :
         /\ Len(new.interfaces[i].events) = Len(old.interfaces[i].events)
         /\ \A k \in 1..Len(old.interfaces[i].events) :
              new.interfaces[i].events[k].ticks = old.interfaces[i].events[k].ticks + n
    /\ Len(new.children) = Len(old.children)
    /\ \A i \in 1..Len(old.children) : TickedBy(old.children[i], new.children[i], n)

\* A firing of the periodic timer that finds the application registered and
\* the run state at most ERunning
TickingFiring ==
    /\ \E id \in timers : onPeriodicTimer(id)
    /\ bApplicationRegistered
    /\ serverRunState <= ERunning

\* Where the handler runs as one step: a firing that finds the application
\* registered and the run state at most ERunning ticks every event of every
\* published tree once and no event of another tree; no other step ticks an event
FiringTicksOnce ==
    [][ \A r \in 1..Len(objects) :
          TickedBy(objects[r], objects'[r],
                   IF TickingFiring /\ objects[r].publish THEN 1 ELSE 0) ]_vars

\* C40: the tick events are ticked only while the run state is at most
\* ERunning: the step of onPeriodicTimer that ticks the events of the
\* published objects is never taken with the run state past ERunning
C40_NoTickPastRunning ==
    [][ ((\E due \in BOOLEAN : TickEvents(due)) /\ bApplicationRegistered)
           => serverRunState <= ERunning ]_vars

====
